---- MODULE Spec2Model ----
(***************************************************************************)
(* Run cache and orchestration layer of ndop (src/model/eval.py, class     *)
(* Model): the on-disk tree of ParameterSet directories and spinup runs,   *)
(* the resolver, the spinup chain manager and the run lifecycle.           *)
(*                                                                         *)
(* Numbers are integers on a grid.  Parameter components are multiples of  *)
(* one grid unit; Euclidean distances are compared through their squares   *)
(* (d <= T  iff  d*d <= T*T for non-negative d, T).  float('inf') is the   *)
(* sentinel Inf.  Years and tolerances are in abstract units.              *)
(***************************************************************************)
EXTENDS Integers, Sequences, FiniteSets, TLC

(* ---------------------------- bounds ----------------------------------- *)
MaxSets == 2
MaxRuns == 2
MaxTotalRuns == 2
MaxFaults == 1

(* ------------------------ program constants ---------------------------- *)
MODEL_PARAMETER_LOWER_BOUND == <<2, 2>>
MODEL_PARAMETER_UPPER_BOUND == <<4, 4>>
MODEL_PARAMETERS_MAX_DIFF == 2
MODEL_PARAMETERS_FORMAT_STEP == 2
MODEL_SPINUP_MAX_YEARS == 3
default_spinup_options == [years |-> 3, tolerance |-> 0, combination |-> "or"]

(* ---------------------------- input sets ------------------------------- *)
Dim == 1..2
ParamValues == 1..5
Vectors == [Dim -> ParamValues]
TimeSteps == {1}
SetIdx == 0..(MaxSets - 1)
TolValues == 0..2
WorstTol == 2
Null == -1
Inf == -1
NoDir == <<>>
ZeroVec == <<0, 0>>

ChainVectors == {<<2, 2>>, <<3, 3>>, <<4, 4>>}
OutOfBounds == {p \in Vectors : \E i \in Dim :
                   \/ p[i] < MODEL_PARAMETER_LOWER_BOUND[i]
                   \/ p[i] > MODEL_PARAMETER_UPPER_BOUND[i]}

OptionSets ==
    {[years |-> 1, tolerance |-> 0, combination |-> "or"],
     [years |-> 2, tolerance |-> 0, combination |-> "or"],
     [years |-> 1, tolerance |-> 0, combination |-> "and"],
     [years |-> 2, tolerance |-> 1, combination |-> "and"]}
NoOpts == [years |-> Null, tolerance |-> Null, combination |-> "none"]

VARIABLES tsdir, psets, pc, call, last, env, q

vars == <<tsdir, psets, pc, call, last, env, q>>

(* ------------------------- directory records --------------------------- *)
\* the directories of the derivative area of a ParameterSet: one per
\* parameter index (counted from 1 here) and sign of the step
DerivKeys == Dim \X {-1, 0, 1}
NoDeriv == [key \in DerivKeys |-> <<>>]

Absent ==
    [present |-> FALSE, readable |-> FALSE, ro |-> FALSE, vec |-> ZeroVec,
     runs |-> <<>>, deriv |-> NoDeriv]

NoLast ==
    [op |-> "none", ts |-> 0, p |-> ZeroVec, flag |-> FALSE, ps |-> NoDir,
     opts |-> NoOpts, result |-> NoDir, raised |-> "", warned |-> {},
     created |-> FALSE, made |-> 0, waits |-> 0]

IdleCall ==
    [ps |-> NoDir, opts |-> NoOpts, sfc |-> FALSE, stage |-> "top",
     cur |-> NoOpts, input |-> NoDir, run |-> NoDir, warned |-> {}, made |-> 0,
     waits |-> 0]

NoQuery ==
    [run |-> NoDir, opts |-> NoOpts, done |-> FALSE, match |-> FALSE,
     raised |-> "", warned |-> {}]

(* ------------------------------ helpers -------------------------------- *)
RECURSIVE SortedSeq(_)
SortedSeq(S) ==
    IF S = {} THEN <<>>
    ELSE LET m == CHOOSE x \in S : \A y \in S : x <= y
         IN  <<m>> \o SortedSeq(S \ {m})

\* util.io.get_dirs(time_step_dir): the ParameterSet directories, by name
get_dirs(ps, ts) ==
    SortedSeq({i \in SetIdx : ps[ts][i].present})

\* variant: only the lower bounds are checked
check_lower_bounds_only(p) ==
    IF \E i \in Dim : p[i] < MODEL_PARAMETER_LOWER_BOUND[i] THEN "ValueError"
    ELSE ""

\* Model.check_if_parameters_in_bounds: "" or the error raised
check_if_parameters_in_bounds(p) ==
    IF \E i \in Dim : p[i] < MODEL_PARAMETER_LOWER_BOUND[i] THEN "ValueError"
    ELSE IF \E i \in Dim : p[i] > MODEL_PARAMETER_UPPER_BOUND[i] THEN "ValueError"
    ELSE ""

\* np.savetxt(..., fmt=MODEL_PARAMETERS_FORMAT_STRING) followed by np.loadtxt:
\* each component is rounded to the precision of the format
FormatValue(v) ==
    ((2 * v + MODEL_PARAMETERS_FORMAT_STEP) \div (2 * MODEL_PARAMETERS_FORMAT_STEP))
        * MODEL_PARAMETERS_FORMAT_STEP

\* variant: the file is written with too few digits
savetxt_coarse(p) == [i \in Dim |-> ((2 * p[i] + 8) \div 16) * 8]

savetxt(p) == [i \in Dim |-> FormatValue(p[i])]

\* np.linalg.norm(a - b), squared
Norm2(a, b) ==
    (a[1] - b[1]) * (a[1] - b[1]) + (a[2] - b[2]) * (a[2] - b[2])

\* variant: the comparison the wrong way round
Greater(a, b) == a # Inf /\ (b = Inf \/ a > b)

\* a < b on distances, Inf being float('inf')
Less(a, b) == a # Inf /\ (b = Inf \/ a < b)

MaxDiff2 == MODEL_PARAMETERS_MAX_DIFF * MODEL_PARAMETERS_MAX_DIFF

\* Model.get_parameters_diff: the squared distance, or "OSError" as Null
get_parameters_diff(ps, p, dir) ==
    LET s == ps[dir[1]][dir[2]]
    IN  IF s.present /\ s.readable THEN Norm2(p, s.vec) ELSE Null

(* ------------------------------ runs ----------------------------------- *)
RECURSIVE LastReadable(_, _)
LastReadable(runs, k) ==
    IF k < 1 THEN Null
    ELSE IF runs[k].readable THEN k - 1
    ELSE LastReadable(runs, k - 1)

\* variant: the highest run index, whether its job can be loaded or not
get_highest_run_dir(ps, dir) == Len(ps[dir[1]][dir[2]].runs) - 1

\* Model.get_last_run_dir(search_path): run index or Null (None)
get_last_run_dir(ps, dir) ==
    LET runs == ps[dir[1]][dir[2]].runs
    IN  LastReadable(runs, Len(runs))

\* the warnings get_last_run_dir emits
LastRunWarnings(ps, dir) ==
    LET runs == ps[dir[1]][dir[2]].runs
        k == LastReadable(runs, Len(runs))
    IN  IF \E j \in 1..Len(runs) : j > k + 1 /\ ~runs[j].readable
        THEN {"run_unreadable"} ELSE {}

(* --------------------------- the resolver ------------------------------ *)
\* the while loop of Model.get_closest_parameter_set_dir, from position n
RECURSIVE ScanFrom(_, _, _, _, _, _, _)
ScanFrom(ps, ts, dirs, p, nso, n, best) ==
    IF ~((best.diff = Inf \/ best.diff > 0) /\ n <= Len(dirs)) THEN best
    ELSE LET cur == <<ts, dirs[n]>>
             d == get_parameters_diff(ps, p, cur)
         IN  IF d = Null
             THEN \* the handler formats the undefined name current_parameters_file
                  [best EXCEPT !.raised = "NameError"]
             ELSE IF Less(d, best.diff)
                     /\ (nso \/ get_last_run_dir(ps, cur) # Null)
                  THEN ScanFrom(ps, ts, dirs, p, nso, n + 1,
                                [best EXCEPT !.dir = cur, !.diff = d])
                  ELSE ScanFrom(ps, ts, dirs, p, nso, n + 1, best)

\* Model.get_closest_parameter_set_dir
get_closest_parameter_set_dir(td, ps, ts, p, nso) ==
    LET start == [raised |-> "", dir |-> NoDir, diff |-> Inf]
    IN  IF check_if_parameters_in_bounds(p) # ""
        THEN [start EXCEPT !.raised = check_if_parameters_in_bounds(p)]
        ELSE IF ~td[ts] THEN start
        ELSE ScanFrom(ps, ts, get_dirs(ps, ts), p, nso, 1, start)

\* the free-index search of Model.get_parameter_set_dir
RECURSIVE FreeIndexFrom(_, _, _)
FreeIndexFrom(ps, ts, n) ==
    IF n \in SetIdx /\ ps[ts][n].present THEN FreeIndexFrom(ps, ts, n + 1) ELSE n

\* variant: the index is the number of directories (no search for a free one)
NumberOfDirs(ps, ts) == Cardinality({i \in SetIdx : ps[ts][i].present})

FreeIndex(ps, ts) == FreeIndexFrom(ps, ts, 0)

\* variant: a stored vector exactly at the threshold is rejected
ReachesMaxDiff(d) == d >= MaxDiff2

\* parameters_diff > MODEL_PARAMETERS_MAX_DIFF, on the squared distance
ExceedsMaxDiff(d) == d > MaxDiff2

\* Model.get_parameter_set_dir: outcome and the tree it leaves
get_parameter_set_dir(td, ps, ts, p, create) ==
    LET c == get_closest_parameter_set_dir(td, ps, ts, p, TRUE)
        hit == c.raised = "" /\ c.dir # NoDir
                 /\ ~ExceedsMaxDiff(get_parameters_diff(ps, p, c.dir))
        n == FreeIndex(ps, ts)
        new == [present |-> TRUE, readable |-> TRUE, ro |-> TRUE,
                vec |-> savetxt(p), runs |-> <<>>, deriv |-> NoDeriv]
    IN  IF c.raised # ""
        THEN [raised |-> c.raised, result |-> NoDir, td |-> td, ps |-> ps]
        ELSE IF hit
        THEN [raised |-> "", result |-> c.dir, td |-> td, ps |-> ps]
        ELSE IF create
        THEN [raised |-> "", result |-> <<ts, n>>,
              td |-> [td EXCEPT ![ts] = TRUE],
              ps |-> IF n \in SetIdx THEN [ps EXCEPT ![ts][n] = new] ELSE ps]
        ELSE [raised |-> "", result |-> NoDir, td |-> td, ps |-> ps]

(* ------------------------- spinup options ------------------------------ *)
\* Model.spinup_option: the value of one option, and whether a warning was given
spinup_option(option, opts) ==
    IF opts # NoOpts /\ option # "combination" THEN opts[option]
    ELSE IF opts # NoOpts /\ opts[option] \in {"and", "or"} THEN opts[option]
    ELSE default_spinup_options[option]

\* variant: the options passed are ignored
only_default_spinup_options(opts) == default_spinup_options

\* Model.all_spinup_options
all_spinup_options(opts) ==
    [years |-> spinup_option("years", opts),
     tolerance |-> spinup_option("tolerance", opts),
     combination |-> spinup_option("combination", opts)]

(* --------------------------- run properties ---------------------------- *)
RunAt(ps, run) == ps[run[1]][run[2]].runs[run[3] + 1]

\* Model.get_total_years with get_previous_run_dir: the sum over the run and
\* every lower index of its directory, Null when a job cannot be loaded
RECURSIVE TotalYearsFrom(_, _)
TotalYearsFrom(runs, k) ==
    IF k < 1 THEN 0
    ELSE IF ~runs[k].readable THEN Null
    ELSE LET below == TotalYearsFrom(runs, k - 1)
         IN  IF below = Null THEN Null ELSE runs[k].lastYear + below

\* variant: the years of the run alone, without the runs before it
get_own_years(ps, run) ==
    IF RunAt(ps, run).readable THEN RunAt(ps, run).lastYear ELSE Null

get_total_years(ps, run) ==
    TotalYearsFrom(ps[run[1]][run[2]].runs, run[3] + 1)

\* Model.get_real_tolerance
get_real_tolerance(ps, run) == RunAt(ps, run).lastTol

\* variant: no ceiling on the years of combination 'and'
MatchingValuesNoCeiling(run_years, run_tolerance, o) ==
    IF o.combination = "and"
    THEN [match |-> (run_years >= o.years /\ run_tolerance <= o.tolerance),
          warned |-> {}]
    ELSE [match |-> (run_years >= o.years \/ run_tolerance <= o.tolerance),
          warned |-> {}]

\* the comparison of Model.is_run_matching_options on the values read
MatchingValues(run_years, run_tolerance, o) ==
    IF o.combination = "and"
    THEN LET m == (run_years >= o.years /\ run_tolerance <= o.tolerance)
                    \/ run_years >= MODEL_SPINUP_MAX_YEARS
         IN  [match |-> m,
              warned |-> IF m /\ run_tolerance > o.tolerance
                         THEN {"max_years_reached"} ELSE {}]
    ELSE [match |-> (run_years >= o.years \/ run_tolerance <= o.tolerance),
          warned |-> {}]

\* Model.is_run_matching_options(run_dir, spinup_options)
is_run_matching_options(ps, run, opts) ==
    LET o == all_spinup_options(opts)
    IN  IF run = NoDir
        THEN [match |-> FALSE, warned |-> {}, raised |-> ""]
        ELSE IF get_total_years(ps, run) = Null
        THEN [match |-> FALSE, warned |-> {}, raised |-> "OSError"]
        ELSE LET v == MatchingValues(get_total_years(ps, run),
                                     get_real_tolerance(ps, run), o)
             IN  [match |-> v.match, warned |-> v.warned, raised |-> ""]

LastRunPath(ps, dir) ==
    IF get_last_run_dir(ps, dir) = Null THEN NoDir
    ELSE <<dir[1], dir[2], get_last_run_dir(ps, dir)>>

TotalRuns(ps) ==
    LET RECURSIVE Sum(_)
        Sum(S) == IF S = {} THEN 0
                  ELSE LET x == CHOOSE y \in S : TRUE
                       IN  Len(ps[x[1]][x[2]].runs) + Sum(S \ {x})
    IN  Sum(TimeSteps \X SetIdx)

(* ---------------------- the spinup chain manager ----------------------- *)
\* variant: the run to start from is never waited for
wait_skipped(run) == FALSE

\* "finish last run": if last_run_dir is not None, wait for it
wait_needed(run) == run # NoDir

\* Model.get_spinup_run_dir up to the wait on the previous run:
\* find the last run, check it, load the parameters, look for a closest
\* ParameterSet to start from
FindCheck(td, ps, dir, opts, sfc) ==
    LET lastrun == LastRunPath(ps, dir)
        w == LastRunWarnings(ps, dir)
        m == is_run_matching_options(ps, lastrun, opts)
        s == ps[dir[1]][dir[2]]
        c == get_closest_parameter_set_dir(td, ps, dir[1], s.vec, FALSE)
        out == [kind |-> "raise", result |-> NoDir, input |-> NoDir,
                raised |-> "", warned |-> w \cup m.warned]
        go(input) == IF wait_needed(input) THEN "wait" ELSE "make"
    IN  IF m.raised # "" THEN [out EXCEPT !.raised = m.raised]
        ELSE IF m.match THEN [out EXCEPT !.kind = "return", !.result = lastrun]
        ELSE IF ~s.readable THEN [out EXCEPT !.raised = "OSError"]
        ELSE IF lastrun = NoDir /\ sfc
        THEN IF c.raised # "" THEN [out EXCEPT !.raised = c.raised]
             ELSE IF c.dir = NoDir THEN [out EXCEPT !.raised = "TypeError"]
             ELSE [out EXCEPT !.kind = go(LastRunPath(ps, c.dir)),
                              !.input = LastRunPath(ps, c.dir),
                              !.warned = @ \cup LastRunWarnings(ps, c.dir)]
        ELSE [out EXCEPT !.kind = go(lastrun), !.input = lastrun]

\* variant: the years of the input run are subtracted wherever it lives
input_years_of_any_dir(ps, dir, input) ==
    IF input # NoDir THEN get_total_years(ps, input) ELSE 0

\* last_years of Model.make_run: the accumulated years of the input run when
\* it lives in the directory of the new run (output_path), else 0
input_years(ps, dir, input) ==
    IF input # NoDir /\ <<input[1], input[2]>> = dir
    THEN get_total_years(ps, input) ELSE 0

\* variant: the run options file keeps its write permission
run_options_left_writable(years, tolerance, time_step) ==
    [years |-> years, tolerance |-> tolerance, time_step |-> time_step,
     ro |-> FALSE]

\* "create run options file": np.savetxt of (years, tolerance, time_step) and
\* os.chmod(run_options_file, stat.S_IRUSR)
run_options(years, tolerance, time_step) ==
    [years |-> years, tolerance |-> tolerance, time_step |-> time_step,
     ro |-> TRUE]

\* Model.make_run up to job.start(): the run directory it leaves and the error
make_run(ps, dir, parameters, years, tolerance, input) ==
    LET s == ps[dir[1]][dir[2]]
        next_run_index == Len(s.runs)
        last_years == input_years(ps, dir, input)
        rec == [readable |-> TRUE, finished |-> FALSE, lastYear |-> 0,
                lastTol |-> WorstTol, input |-> input,
                incYears |-> years - last_years,
                reqTol |-> tolerance, ro |-> FALSE,
                options |-> run_options(years, tolerance, dir[1])]
        nojob == [rec EXCEPT !.readable = FALSE, !.incYears = 0]
        put(r) == [ps EXCEPT ![dir[1]][dir[2]].runs = Append(@, r)]
        run == <<dir[1], dir[2], next_run_index>>
    IN  IF check_if_parameters_in_bounds(parameters) # ""
        THEN [raised |-> "ValueError", run |-> NoDir, ps |-> ps]
        ELSE IF last_years = Null
        THEN [raised |-> "OSError", run |-> run, ps |-> put(nojob)]
        ELSE IF ~(years - last_years >= 0)
        THEN [raised |-> "AssertionError", run |-> run, ps |-> put(nojob)]
        ELSE [raised |-> "", run |-> run, ps |-> put(rec)]

SpinupLast(c, result, raised, warned) ==
    [NoLast EXCEPT !.op = "spinup", !.ts = c.ps[1], !.ps = c.ps,
                   !.opts = c.opts,
                   !.result = result, !.raised = raised, !.warned = warned,
                   !.made = c.made, !.waits = c.waits]

\* the call in frame c ends with the error e, leaving the tree ps
Raised(c, ps, e) ==
    [pc |-> "idle", call |-> IdleCall, ps |-> ps,
     last |-> SpinupLast(c, NoDir, e, c.warned)]

\* Model.get_spinup_run_dir from one blocking wait to the next: `phase` is
\* where the call in frame c stands ("enter": at its start, "make": after the
\* wait on the previous run, "return": at its return of `result`).  The value
\* is the tree, the frame and the place the client is left at.
\* the frame after find, check and start-from-closest (outcome f)
Found(c, f) == [c EXCEPT !.warned = @ \cup f.warned, !.input = f.input]

\* the run make_run creates for the call in frame c
MakeRun(ps, c) ==
    make_run(ps, c.ps, ps[c.ps[1]][c.ps[2]].vec,
             all_spinup_options(c.cur).years, all_spinup_options(c.cur).tolerance,
             c.input)

Full(ps, c) ==
    \/ Len(ps[c.ps[1]][c.ps[2]].runs) >= MaxRuns
    \/ TotalRuns(ps) >= MaxTotalRuns

\* the frames of the two nested calls of combination 'and'
FirstNested(c) ==
    [c EXCEPT !.stage = "and1", !.input = NoDir,
              !.cur = [years |-> all_spinup_options(c.cur).years, tolerance |-> 0,
                       combination |-> "or"]]

SecondNested(c) ==
    [c EXCEPT !.stage = "and2", !.input = NoDir, !.run = NoDir,
              !.cur = [years |-> MODEL_SPINUP_MAX_YEARS,
                       tolerance |-> all_spinup_options(c.opts).tolerance,
                       combination |-> "or"]]

RECURSIVE Advance(_, _, _, _, _)
Advance(td, ps, c, phase, result) ==
    IF phase = "enter"
    THEN LET f == FindCheck(td, ps, c.ps, c.cur, c.sfc)
         IN  IF f.kind = "raise" THEN Raised(Found(c, f), ps, f.raised)
             ELSE IF f.kind = "return"
             THEN Advance(td, ps, Found(c, f), "return", f.result)
             ELSE IF f.kind = "wait"
             THEN [pc |-> "wait_last", ps |-> ps, last |-> NoLast,
                   call |-> Found(c, f)]
             ELSE Advance(td, ps, Found(c, f), "make", NoDir)
    ELSE IF phase = "make"
    THEN IF all_spinup_options(c.cur).combination = "or"
         THEN LET m == MakeRun(ps, c)
              IN  IF Full(ps, c)
                  THEN [pc |-> "full", call |-> c, ps |-> ps, last |-> NoLast]
                  ELSE IF m.raised # "" THEN Raised(c, m.ps, m.raised)
                  ELSE [pc |-> "wait_new", ps |-> m.ps, last |-> NoLast,
                        call |-> [c EXCEPT !.run = m.run, !.made = @ + 1]]
         ELSE Advance(td, ps, FirstNested(c), "enter", NoDir)
    ELSE IF c.stage = "and1"
    THEN Advance(td, ps, SecondNested(c), "enter", NoDir)
    ELSE [pc |-> "idle", call |-> IdleCall, ps |-> ps,
          last |-> SpinupLast(c, result, "", c.warned)]

\* variant: the run directory is left as it is
LeftWritable(ps, run) == ps

\* Metos3D_Job.make_read_only / util.io.make_read_only_recursively on a run
MarkReadOnly(ps, run) ==
    [ps EXCEPT ![run[1]][run[2]].runs[run[3] + 1].ro = TRUE]

(* ------------------------------ actions -------------------------------- *)

Init ==
    /\ tsdir = [ts \in TimeSteps |-> FALSE]
    /\ psets = [ts \in TimeSteps |-> [i \in SetIdx |-> Absent]]
    /\ pc = "idle"
    /\ call = IdleCall
    /\ last = NoLast
    /\ env = [faults |-> 0]
    /\ q = NoQuery

\* a client calls get_parameter_set_dir(time_step, parameters, create)
Resolve(ts, p, create) ==
    LET r == get_parameter_set_dir(tsdir, psets, ts, p, create)
    IN  /\ last = NoLast /\ pc = "idle"
        /\ (r.result # NoDir => r.result[2] \in SetIdx)
        /\ tsdir' = r.td
        /\ psets' = r.ps
        /\ last' = [NoLast EXCEPT !.op = "resolve", !.ts = ts, !.p = p,
                                  !.flag = create, !.result = r.result,
                                  !.raised = r.raised,
                                  !.created = (r.ps # psets)]
        /\ UNCHANGED <<pc, call, env, q>>

\* a client calls get_closest_parameter_set_dir(time_step, parameters, no_spinup_okay)
Closest(ts, p, nso) ==
    LET r == get_closest_parameter_set_dir(tsdir, psets, ts, p, nso)
    IN  /\ last = NoLast /\ pc = "idle"
        /\ last' = [NoLast EXCEPT !.op = "closest", !.ts = ts, !.p = p,
                                  !.flag = nso, !.result = r.dir,
                                  !.raised = r.raised]
        /\ UNCHANGED <<tsdir, psets, pc, call, env, q>>

ResolveCall ==
    \E ts \in TimeSteps, p \in Vectors, create \in BOOLEAN : Resolve(ts, p, create)

ClosestCall ==
    \E ts \in TimeSteps, p \in Vectors, nso \in BOOLEAN : Closest(ts, p, nso)

\* the same calls as the client of the spinup chain makes them
ChainResolveCall ==
    \E ts \in TimeSteps, p \in ChainVectors : Resolve(ts, p, TRUE)

ChainClosestCall ==
    \E ts \in TimeSteps, p \in ChainVectors : Closest(ts, p, FALSE)

\* a client calls make_run on the spinup directory of a ParameterSet with
\* parameters outside the bounds
MakeRunCall ==
    \E ts \in TimeSteps, i \in SetIdx, p \in OutOfBounds, o \in OptionSets :
        LET m == make_run(psets, <<ts, i>>, p, o.years, o.tolerance, NoDir)
        IN  /\ last = NoLast /\ pc = "idle"
            /\ psets[ts][i].present
            /\ psets' = m.ps
            /\ last' = [NoLast EXCEPT !.op = "make_run", !.ts = ts, !.p = p,
                                      !.ps = <<ts, i>>, !.result = m.run,
                                      !.raised = m.raised,
                                      !.created = (m.ps # psets)]
            /\ UNCHANGED <<tsdir, pc, call, env, q>>

\* the parameters file of a ParameterSet becomes unreadable (I/O failure)
ParametersFileFault ==
    \E ts \in TimeSteps, i \in SetIdx :
        /\ env.faults < MaxFaults
        /\ psets[ts][i].present /\ psets[ts][i].readable
        /\ psets' = [psets EXCEPT ![ts][i].readable = FALSE]
        /\ env' = [env EXCEPT !.faults = @ + 1]
        /\ last = NoLast
        /\ last' = NoLast
        /\ UNCHANGED <<tsdir, pc, call, q>>

\* a ParameterSet directory without runs is removed from the tree by its owner
RemoveParameterSet ==
    \E ts \in TimeSteps, i \in SetIdx :
        /\ env.faults < MaxFaults
        /\ psets[ts][i].present /\ psets[ts][i].runs = <<>>
        /\ call.ps # <<ts, i>>
        /\ psets' = [psets EXCEPT ![ts][i] = Absent]
        /\ env' = [env EXCEPT !.faults = @ + 1]
        /\ last = NoLast
        /\ last' = NoLast
        /\ UNCHANGED <<tsdir, pc, call, q>>

\* a client calls get_spinup_run_dir(parameter_set_dir, spinup_options,
\* start_from_closest_parameters); the call runs to its first wait or its end
SpinupStart(ts, i, opts, sfc) ==
    /\ pc = "idle" /\ last = NoLast
    /\ psets[ts][i].present
    /\ \E r \in {Advance(tsdir, psets,
                          [IdleCall EXCEPT !.ps = <<ts, i>>, !.opts = opts,
                                           !.sfc = sfc, !.cur = opts],
                          "enter", NoDir)} :
         /\ r.pc # "full"
         /\ pc' = r.pc /\ call' = r.call /\ psets' = r.ps /\ last' = r.last
    /\ UNCHANGED <<tsdir, env, q>>

SpinupCall ==
    \E ts \in TimeSteps, i \in SetIdx, opts \in OptionSets, sfc \in BOOLEAN :
        SpinupStart(ts, i, opts, sfc)

\* the wait of the client on a run ends: wait_until_job_finished(run) returns
\* (or fails); the call goes on from `phase`
WaitEnds(run, phase) ==
    /\ last = NoLast
    /\ IF ~RunAt(psets, run).readable
       THEN /\ pc' = "idle" /\ call' = IdleCall /\ psets' = psets
            /\ last' = SpinupLast([call EXCEPT !.waits = @ + 1], NoDir,
                                   "OSError", call.warned)
       ELSE /\ RunAt(psets, run).finished
            /\ \E r \in {Advance(tsdir, MarkReadOnly(psets, run),
                                  [call EXCEPT !.waits = @ + 1], phase, run)} :
                 /\ r.pc # "full"
                 /\ pc' = r.pc /\ call' = r.call /\ psets' = r.ps
                 /\ last' = r.last
    /\ UNCHANGED <<tsdir, env, q>>

\* "finish last run": wait_until_job_finished on the input run, then the new run
SpinupWaitLast ==
    /\ pc = "wait_last"
    /\ WaitEnds(call.input, "make")

\* run_job's wait_until_job_finished on the new run, then the return
SpinupWaitNew ==
    /\ pc = "wait_new"
    /\ WaitEnds(call.run, "return")

\* the outcomes of a job submitted with (years, tolerance): it stops when the
\* tolerance is reached or the years are over
JobOutcomes(r) ==
    {o \in [lastYear : 0..r.incYears, lastTol : TolValues] :
        \/ o.lastYear = r.incYears
        \/ (o.lastYear >= 1 /\ o.lastTol <= r.reqTol)}

\* the batch system finishes a running job
JobFinish ==
    \E ts \in TimeSteps, i \in SetIdx :
      \E k \in 1..Len(psets[ts][i].runs) :
        LET r == psets[ts][i].runs[k]
        IN  /\ last = NoLast
            /\ r.readable /\ ~r.finished
            /\ \E o \in JobOutcomes(r) :
                 psets' = [psets EXCEPT ![ts][i].runs[k] =
                             [r EXCEPT !.finished = TRUE, !.lastYear = o.lastYear,
                                       !.lastTol = o.lastTol]]
            /\ UNCHANGED <<tsdir, pc, call, last, env, q>>

\* the job files of a run become unreadable (I/O failure)
RunFilesFault ==
    \E ts \in TimeSteps, i \in SetIdx :
      \E k \in 1..Len(psets[ts][i].runs) :
        /\ last = NoLast
        /\ env.faults < MaxFaults
        /\ psets[ts][i].runs[k].readable
        /\ psets' = [psets EXCEPT ![ts][i].runs[k].readable = FALSE]
        /\ env' = [env EXCEPT !.faults = @ + 1]
        /\ UNCHANGED <<tsdir, pc, call, last, q>>

\* variant: the run directory of the failed job is removed again
job_failure_rolled_back(c, ps) ==
    Raised(c, [ps EXCEPT ![c.run[1]][c.run[2]].runs =
                             SubSeq(@, 1, Len(@) - 1)], "JobError")

\* job.init or job.start of the run just created by the call in frame c
\* raises: nothing in run_job, make_run or get_spinup_run_dir catches it, and
\* the run directory stays as it is, with its configuration and without a
\* job that can be loaded
job_failed(c, ps) ==
    Raised(c, [ps EXCEPT ![c.run[1]][c.run[2]].runs[c.run[3] + 1].readable
                             = FALSE], "JobError")

\* the step of the call reaches make_run and its job fails at init or start
JobFails(r, made) ==
    /\ env.faults < MaxFaults
    /\ r.pc = "wait_new" /\ r.call.made = made + 1
    /\ \E f \in {job_failed(r.call, r.ps)} :
         /\ pc' = f.pc /\ call' = f.call /\ psets' = f.ps /\ last' = f.last
    /\ env' = [env EXCEPT !.faults = @ + 1]
    /\ UNCHANGED <<tsdir, q>>

\* get_spinup_run_dir is called and the job of its new run fails
SpinupCallJobFails ==
    \E ts \in TimeSteps, i \in SetIdx, opts \in OptionSets, sfc \in BOOLEAN :
        /\ pc = "idle" /\ last = NoLast
        /\ psets[ts][i].present
        /\ JobFails(Advance(tsdir, psets,
                            [IdleCall EXCEPT !.ps = <<ts, i>>, !.opts = opts,
                                             !.sfc = sfc, !.cur = opts],
                            "enter", NoDir), 0)

\* a wait of the call ends and the job of the run made next fails
SpinupWaitJobFails ==
    \E w \in {[at |-> "wait_last", run |-> call.input, phase |-> "make"],
              [at |-> "wait_new", run |-> call.run, phase |-> "return"]} :
        /\ pc = w.at /\ last = NoLast
        /\ RunAt(psets, w.run).readable /\ RunAt(psets, w.run).finished
        /\ JobFails(Advance(tsdir, MarkReadOnly(psets, w.run),
                            [call EXCEPT !.waits = @ + 1], w.phase, w.run),
                    call.made)

\* the client process is stopped while it waits for a job; the job goes on
Interrupt ==
    /\ pc \in {"wait_last", "wait_new"} /\ last = NoLast
    /\ pc' = "idle"
    /\ call' = IdleCall
    /\ UNCHANGED <<tsdir, psets, last, env, q>>

\* the client takes the result of the call
Return ==
    /\ last # NoLast
    /\ last' = NoLast
    /\ UNCHANGED <<tsdir, psets, pc, call, env, q>>

Next ==
    \/ ResolveCall
    \/ ClosestCall
    \/ MakeRunCall
    \/ ParametersFileFault
    \/ RemoveParameterSet
    \/ Return

Spec == Init /\ [][Next]_vars

NextChain ==
    \/ ChainResolveCall
    \/ ChainClosestCall
    \/ SpinupCall
    \/ SpinupWaitLast
    \/ SpinupWaitNew
    \/ SpinupCallJobFails
    \/ SpinupWaitJobFails
    \/ JobFinish
    \/ RunFilesFault
    \/ Interrupt
    \/ Return

SpecChain == Init /\ [][NextChain]_vars

(* ==================== the derivative orchestrator (_df) ================ *)
\* Perturbed parameters live on a finer grid: FineScale fine units make one
\* unit of the parameter grid, and eta is 1 / EtaInverse.
MODEL_DERIVATIVE_SPINUP_YEARS == 1
FineScale == 100
EtaInverse == 10

Abs(x) == IF x < 0 THEN -x ELSE x
Max(a, b) == IF a >= b THEN a ELSE b
Sign(x) == IF x > 0 THEN 1 ELSE IF x < 0 THEN -1 ELSE 0

\* h_factors of _df; an accuracy order other than 1 and 2 raises
h_factors(order) == IF order = 1 THEN <<1>> ELSE <<1, -1>>

\* h_i = max(abs(parameters[parameter_index]), 10**(-1)) * eta, in fine units
StepSize(v) == Max(FineScale * Abs(v), FineScale \div 10) \div EtaInverse

\* The parameters are floating-point numbers: from FloatEdge on (a power of
\* two of the real grid) the representable values lie CoarseSpacing fine
\* units apart, below it one fine unit apart.
FloatEdge == 300
CoarseSpacing == 4
FloatSpacing(x) == IF Abs(x) >= FloatEdge THEN CoarseSpacing ELSE 1

\* the result of a floating-point operation with exact value x >= 0: the
\* nearest representable value, the even one of two nearest
fl(x) ==
    LET s == FloatSpacing(x)
        below == (x \div s) * s
    IN  IF 2 * (x - below) < s THEN below
        ELSE IF 2 * (x - below) > s THEN below + s
        ELSE IF (below \div s) % 2 = 0 THEN below ELSE below + s

\* variant: the step is taken forwards whatever the factor
PerturbForward(p, i, factor, order) ==
    [par |-> fl(p[i] * FineScale + StepSize(p[i])),
     h |-> fl(p[i] * FineScale + StepSize(p[i])) - p[i] * FineScale]

\* variant: the bounds are not considered
PerturbUnclamped(p, i, factor, order) ==
    [par |-> fl(p[i] * FineScale + factor * StepSize(p[i])),
     h |-> fl(p[i] * FineScale + factor * StepSize(p[i])) - p[i] * FineScale]

\* variant: a forward step that violates a bound is clamped like a central one
PerturbClamped(p, i, factor, order) ==
    LET at == p[i] * FineScale
        moved == fl(at + factor * StepSize(p[i]))
        lo == MODEL_PARAMETER_LOWER_BOUND[i] * FineScale
        up == MODEL_PARAMETER_UPPER_BOUND[i] * FineScale
        der == IF moved < lo THEN lo ELSE IF moved > up THEN up ELSE moved
    IN  [par |-> der, h |-> Sign(der - at) * fl(Abs(der - at))]

\* "prepare parameters for derivative", "consider bounds", "calculate h" for
\* a component with the bounds lo and up (fine units): the perturbed
\* component and the realized step
PerturbWithin(p, i, factor, order, lo, up) ==
    LET at == p[i] * FineScale
        raw == factor * StepSize(p[i])
        moved == fl(at + raw)
        violates_lower_bound == moved < lo
        violates_upper_bound == moved > up
        der == IF order = 1
               THEN IF violates_lower_bound \/ violates_upper_bound
                    THEN fl(at - raw) ELSE moved
               ELSE IF violates_lower_bound THEN lo
                    ELSE IF violates_upper_bound THEN up
                    ELSE moved
    IN  [par |-> der, h |-> Sign(der - at) * fl(Abs(der - at))]

\* the same with the bounds of the model, self.parameters_lower_bound and
\* self.parameters_upper_bound
Perturb(p, i, factor, order) ==
    PerturbWithin(p, i, factor, order, MODEL_PARAMETER_LOWER_BOUND[i] * FineScale,
                  MODEL_PARAMETER_UPPER_BOUND[i] * FineScale)

\* the spinup policy a derivative run has to satisfy
DerivativeOptions ==
    [years |-> MODEL_DERIVATIVE_SPINUP_YEARS, tolerance |-> 0,
     combination |-> "or"]

\* variant: no run of a partial derivative directory is taken as matching
DerivNeverMatching(runs) == [match |-> FALSE, raised |-> "", idx |-> Null]

\* get_last_run_dir and is_run_matching_options on a partial derivative
\* directory holding `runs`
DerivMatching(runs) ==
    LET n == LastReadable(runs, Len(runs))
    IN  IF n = Null THEN [match |-> FALSE, raised |-> "", idx |-> Null]
        ELSE IF TotalYearsFrom(runs, n + 1) = Null
        THEN [match |-> FALSE, raised |-> "OSError", idx |-> n]
        ELSE [match |-> MatchingValues(TotalYearsFrom(runs, n + 1),
                                       runs[n + 1].lastTol,
                                       all_spinup_options(DerivativeOptions)).match,
              raised |-> "", idx |-> n]

\* util.io.remove_recursively(partial_derivative_dir, force=True,
\* exclude_dir=True): everything below the directory goes
remove_recursively(runs) == <<>>

\* make_run(partial_derivative_dir, parameters_der,
\* MODEL_DERIVATIVE_SPINUP_YEARS, 0, ..., tracer_input_path=spinup_run_dir,
\* wait_seconds=False) on a directory holding `runs`; der is the perturbed
\* component i
make_derivative_run(runs, i, der, input, time_step) ==
    LET rec == [readable |-> TRUE, finished |-> FALSE, lastYear |-> 0,
                lastTol |-> WorstTol, input |-> input,
                incYears |-> MODEL_DERIVATIVE_SPINUP_YEARS,
                reqTol |-> 0, ro |-> FALSE,
                options |-> run_options(MODEL_DERIVATIVE_SPINUP_YEARS, 0,
                                        time_step)]
    IN  IF \/ der < MODEL_PARAMETER_LOWER_BOUND[i] * FineScale
           \/ der > MODEL_PARAMETER_UPPER_BOUND[i] * FineScale
        THEN [raised |-> "ValueError", idx |-> Null, runs |-> runs]
        ELSE [raised |-> "", idx |-> Len(runs), runs |-> Append(runs, rec)]

\* variant: make_run of the submit loop waits for its job
submit_waits_for_job(k) == TRUE

\* wait_seconds of the make_run call of the submit loop: False, no wait
submit_wait_seconds(k) == FALSE

\* the locals of a _df call
DfLocals(ts, p, opts, order, sfc) ==
    [op |-> "df", ts |-> ts, p |-> p, opts |-> opts, order |-> order,
     sfc |-> sfc, phase |-> "spinup", ps |-> NoDir, base |-> NoDir,
     k |-> 0, dirs |-> <<>>, h |-> <<>>, fresh |-> <<>>, frun |-> NoDir]

\* the _df call with locals d ends, with an error or with its value
DfEnd(ps, d, raised) ==
    [pc |-> "idle", call |-> IdleCall, ps |-> ps, q |-> NoQuery,
     last |-> [NoLast EXCEPT !.op = "df", !.ts = d.ts, !.p = d.p, !.ps = d.ps,
                              !.flag = (d.order = 2),
                              !.opts = d.opts, !.result = d,
                              !.raised = raised]]

\* "start derivative runs": the loop over parameter_index and h_factor_index
\* from position k on (k counts the pairs in loop order, from 1).  The locals
\* the second loop does not read (spinup options, start-from-closest flag,
\* the run of f) are dropped at its end.
RECURSIVE DfSubmitFrom(_, _, _)
DfSubmitFrom(ps, d, k) ==
    LET nf == Len(h_factors(d.order))
        i == ((k - 1) \div nf) + 1
        f == ((k - 1) % nf) + 1
        pt == Perturb(d.p, i, h_factors(d.order)[f], d.order)
        key == <<i, Sign(pt.h)>>
        runs == ps[d.ps[1]][d.ps[2]].deriv[key]
        m == DerivMatching(runs)
        mk == make_derivative_run(remove_recursively(runs), i, pt.par, d.base,
                                  d.ts)
        put(rs) == [ps EXCEPT ![d.ps[1]][d.ps[2]].deriv[key] = rs]
        note(idx, new) == [d EXCEPT !.dirs = Append(@, [key |-> key, idx |-> idx]),
                                    !.h = Append(@, pt.h),
                                    !.fresh = Append(@, new)]
    IN  IF k > Len(d.p) * nf
        THEN [pc |-> "df_wait", call |-> IdleCall, ps |-> ps, last |-> NoLast,
              q |-> [d EXCEPT !.phase = "wait", !.k = 1, !.opts = NoOpts,
                              !.sfc = FALSE, !.frun = NoDir]]
        ELSE IF m.raised # "" THEN DfEnd(ps, d, m.raised)
        ELSE IF m.match THEN DfSubmitFrom(ps, note(m.idx, FALSE), k + 1)
        ELSE IF mk.raised # "" THEN DfEnd(put(mk.runs), d, mk.raised)
        ELSE IF submit_wait_seconds(k)
        THEN [pc |-> "df_wait", call |-> IdleCall, ps |-> put(mk.runs),
              last |-> NoLast,
              q |-> [note(mk.idx, TRUE) EXCEPT !.phase = "submit_wait", !.k = k]]
        ELSE DfSubmitFrom(put(mk.runs), note(mk.idx, TRUE), k + 1)

\* Model.get_previous_run_dir
get_previous_run_dir(run) ==
    IF run[3] > 0 THEN <<run[1], run[2], run[3] - 1>> ELSE NoDir

\* a run of the derivative area of ParameterSet set; ref is [key, idx]
DerivRunAt(ps, set, ref) == ps[set[1]][set[2]].deriv[ref.key][ref.idx + 1]

\* the call of _df goes on after get_spinup_run_dir (outcome r of Advance)
\* left its frame: the client blocks in it, it raised, or it returned
RECURSIVE DfContinue(_, _, _, _)
DfContinue(td, ps, d, r) ==
    IF r.pc # "idle"
    THEN [pc |-> r.pc, call |-> r.call, ps |-> r.ps, q |-> d, last |-> NoLast]
    ELSE IF r.last.raised # "" THEN DfEnd(r.ps, d, r.last.raised)
    ELSE IF d.phase = "f_spinup"
    THEN [pc |-> "df_traj", call |-> IdleCall, ps |-> r.ps, last |-> NoLast,
          q |-> [d EXCEPT !.phase = "f_traj", !.frun = r.last.result]]
    ELSE LET run == r.last.result
             spinup_run_years == get_total_years(r.ps, run)
             previous_spinup_run_dir == get_previous_run_dir(run)
             previous_spinup_run_years ==
                 IF previous_spinup_run_dir = NoDir THEN 0
                 ELSE get_total_years(r.ps, previous_spinup_run_dir)
             back == previous_spinup_run_years
                         = spinup_run_years - MODEL_DERIVATIVE_SPINUP_YEARS
             base == IF back THEN previous_spinup_run_dir ELSE run
             years == IF back THEN previous_spinup_run_years ELSE spinup_run_years
             g == get_parameter_set_dir(td, r.ps, d.ts, d.p, TRUE)
             o == [years |-> years + MODEL_DERIVATIVE_SPINUP_YEARS,
                   tolerance |-> 0, combination |-> "or"]
         IN  IF spinup_run_years = Null THEN DfEnd(r.ps, d, "OSError")
             ELSE IF d.order = 2
             THEN DfSubmitFrom(r.ps, [d EXCEPT !.base = run], 1)
             ELSE IF previous_spinup_run_years = Null
             THEN DfEnd(r.ps, d, "OSError")
             ELSE IF g.raised # "" THEN DfEnd(g.ps, d, g.raised)
             ELSE IF g.result[2] \notin SetIdx
             THEN [pc |-> "full", call |-> IdleCall, ps |-> g.ps, q |-> d,
                   last |-> NoLast]
             ELSE DfContinue(td, g.ps,
                             [d EXCEPT !.base = base, !.phase = "f_spinup"],
                             Advance(td, g.ps,
                                     [IdleCall EXCEPT !.ps = g.result, !.opts = o,
                                                      !.sfc = d.sfc, !.cur = o],
                                     "enter", NoDir))

\* _df from its call to its first wait or its end
DfEnter(td, ps, ts, p, opts, order, sfc) ==
    LET g == get_parameter_set_dir(td, ps, ts, p, TRUE)
        a == all_spinup_options(opts)
        o == [years |-> a.years - MODEL_DERIVATIVE_SPINUP_YEARS,
              tolerance |-> a.tolerance, combination |-> a.combination]
        d == [DfLocals(ts, p, opts, order, sfc) EXCEPT !.ps = g.result]
    IN  IF g.raised # "" THEN [td |-> g.td] @@ DfEnd(g.ps, d, g.raised)
        ELSE IF g.result[2] \notin SetIdx
        THEN [td |-> g.td, pc |-> "full", call |-> IdleCall, ps |-> g.ps,
              q |-> d, last |-> NoLast]
        ELSE [td |-> g.td] @@
             DfContinue(g.td, g.ps, d,
                        Advance(g.td, g.ps,
                                [IdleCall EXCEPT !.ps = g.result, !.opts = o,
                                                 !.sfc = sfc, !.cur = o],
                                "enter", NoDir))

\* the inputs of the _df calls
DfVectors == {<<4, 3>>}
DfOptionSets ==
    {[years |-> 1, tolerance |-> 0, combination |-> "or"],
     [years |-> 2, tolerance |-> 0, combination |-> "or"]}
AccuracyOrders == {1, 2}

\* the client is left where outcome r says
DfApply(r) ==
    /\ pc' = r.pc /\ call' = r.call /\ psets' = r.ps /\ q' = r.q
    /\ last' = r.last

\* a client calls _df (through df_all or df_points); the value of
\* MODEL_START_FROM_CLOSEST_PARAMETER_SET is either boolean
DfCall ==
    \E ts \in TimeSteps, p \in DfVectors, opts \in DfOptionSets,
       order \in AccuracyOrders, sfc \in BOOLEAN :
        /\ pc = "idle" /\ last = NoLast
        /\ \E r \in {DfEnter(tsdir, psets, ts, p, opts, order, sfc)} :
             /\ r.pc # "full"
             /\ tsdir' = r.td
             /\ DfApply(r)
        /\ UNCHANGED env

\* a wait of get_spinup_run_dir, called by _df or by its _f, ends
DfSpinupWaitEnds(run, phase) ==
    /\ last = NoLast /\ q # NoQuery
    /\ IF ~RunAt(psets, run).readable
       THEN DfApply(DfEnd(psets, q, "OSError"))
       ELSE /\ RunAt(psets, run).finished
            /\ \E r \in {DfContinue(tsdir, psets, q,
                                     Advance(tsdir, MarkReadOnly(psets, run),
                                             [call EXCEPT !.waits = @ + 1],
                                             phase, run))} :
                 /\ r.pc # "full"
                 /\ DfApply(r)
    /\ UNCHANGED <<tsdir, env>>

DfSpinupWaitLast ==
    /\ pc = "wait_last"
    /\ DfSpinupWaitEnds(call.input, "make")

DfSpinupWaitNew ==
    /\ pc = "wait_new"
    /\ DfSpinupWaitEnds(call.run, "return")

\* Metos3D_Job.make_read_only / util.io.make_read_only_recursively on a
\* derivative run
MarkDerivReadOnly(ps, set, ref) ==
    [ps EXCEPT ![set[1]][set[2]].deriv[ref.key][ref.idx + 1].ro = TRUE]

\* "wait partial derivative run to finish": wait_until_job_finished on the
\* run at position k of the second loop returns (or fails)
DfWait ==
    /\ pc = "df_wait" /\ last = NoLast /\ q.phase = "wait"
    /\ IF ~DerivRunAt(psets, q.ps, q.dirs[q.k]).readable
       THEN DfApply(DfEnd(psets, q, "OSError"))
       ELSE /\ DerivRunAt(psets, q.ps, q.dirs[q.k]).finished
            /\ psets' = MarkDerivReadOnly(psets, q.ps, q.dirs[q.k])
            /\ pc' = "df_traj"
            /\ q' = [q EXCEPT !.phase = "traj"]
            /\ UNCHANGED <<call, last>>
    /\ UNCHANGED <<tsdir, env>>

\* _get_trajectory: the trajectory job of the run, in its temporary
\* directory, is over and the trajectory is loaded
DfTrajectoryEnds ==
    /\ pc = "df_traj" /\ last = NoLast
    /\ IF q.phase = "f_traj"
       THEN IF ~RunAt(psets, q.frun).readable
            THEN DfApply(DfEnd(psets, q, "OSError"))
            ELSE \E r \in {DfSubmitFrom(psets, q, 1)} : DfApply(r)
       ELSE IF ~DerivRunAt(psets, q.ps, q.dirs[q.k]).readable
            THEN DfApply(DfEnd(psets, q, "OSError"))
            ELSE IF q.k = Len(q.dirs)
            THEN DfApply(DfEnd(psets, [q EXCEPT !.phase = "done"], ""))
            ELSE /\ pc' = "df_wait"
                 /\ q' = [q EXCEPT !.phase = "wait", !.k = @ + 1]
                 /\ UNCHANGED <<psets, call, last>>
    /\ UNCHANGED <<tsdir, env>>

\* the tolerances the jobs end with while derivatives are computed
DerivTols == {WorstTol}

\* the batch system finishes the job of a spinup run
DfSpinupJobFinish ==
    \E ts \in TimeSteps, i \in SetIdx :
      \E k \in 1..Len(psets[ts][i].runs) :
        LET r == psets[ts][i].runs[k]
        IN  /\ last = NoLast
            /\ r.readable /\ ~r.finished
            /\ \E o \in {x \in JobOutcomes(r) : x.lastTol \in DerivTols} :
                 psets' = [psets EXCEPT ![ts][i].runs[k] =
                             [r EXCEPT !.finished = TRUE, !.lastYear = o.lastYear,
                                       !.lastTol = o.lastTol]]
            /\ UNCHANGED <<tsdir, pc, call, last, env, q>>

\* the batch system finishes the job of a derivative run
DerivJobFinish ==
    \E ts \in TimeSteps, i \in SetIdx, key \in DerivKeys :
      \E k \in 1..Len(psets[ts][i].deriv[key]) :
        LET r == psets[ts][i].deriv[key][k]
        IN  /\ last = NoLast
            /\ r.readable /\ ~r.finished
            /\ \E o \in {x \in JobOutcomes(r) : x.lastTol \in DerivTols} :
                 psets' = [psets EXCEPT ![ts][i].deriv[key][k] =
                             [r EXCEPT !.finished = TRUE, !.lastYear = o.lastYear,
                                       !.lastTol = o.lastTol]]
            /\ UNCHANGED <<tsdir, pc, call, last, env, q>>

\* the job files of a derivative run become unreadable (I/O failure)
DerivRunFilesFault ==
    \E ts \in TimeSteps, i \in SetIdx, key \in DerivKeys :
      \E k \in 1..Len(psets[ts][i].deriv[key]) :
        /\ last = NoLast
        /\ env.faults < MaxFaults
        /\ psets[ts][i].deriv[key][k].readable
        /\ psets' = [psets EXCEPT ![ts][i].deriv[key][k].readable = FALSE]
        /\ env' = [env EXCEPT !.faults = @ + 1]
        /\ UNCHANGED <<tsdir, pc, call, last, q>>

\* the client process is stopped while it waits inside _df; the jobs go on
DfInterrupt ==
    /\ pc \in {"wait_last", "wait_new", "df_wait", "df_traj"} /\ last = NoLast
    /\ pc' = "idle"
    /\ call' = IdleCall
    /\ q' = NoQuery
    /\ UNCHANGED <<tsdir, psets, last, env>>

NextDeriv ==
    \/ DfCall
    \/ DfSpinupWaitLast
    \/ DfSpinupWaitNew
    \/ DfWait
    \/ DfTrajectoryEnds
    \/ DfSpinupJobFinish
    \/ DerivJobFinish
    \/ DerivRunFilesFault
    \/ DfInterrupt
    \/ Return

SpecDeriv == Init /\ [][NextDeriv]_vars

\* the real tolerances a spinup job can end with: none reached, or 0, the
\* state of the run repeating itself from year to year
SpinupTols == {0, WorstTol}

\* the batch system finishes the job of a spinup run, converged or not
SpinupJobEnds ==
    \E ts \in TimeSteps, i \in SetIdx :
      \E k \in 1..Len(psets[ts][i].runs) :
        LET r == psets[ts][i].runs[k]
        IN  /\ last = NoLast
            /\ r.readable /\ ~r.finished
            /\ \E o \in {x \in JobOutcomes(r) : x.lastTol \in SpinupTols} :
                 psets' = [psets EXCEPT ![ts][i].runs[k] =
                             [r EXCEPT !.finished = TRUE, !.lastYear = o.lastYear,
                                       !.lastTol = o.lastTol]]
            /\ UNCHANGED <<tsdir, pc, call, last, env, q>>

\* _df over spinup runs that may have converged, without I/O failures
NextForward ==
    \/ DfCall
    \/ DfSpinupWaitLast
    \/ DfSpinupWaitNew
    \/ DfWait
    \/ DfTrajectoryEnds
    \/ SpinupJobEnds
    \/ DerivJobFinish
    \/ DfInterrupt
    \/ Return

SpecForward == Init /\ [][NextForward]_vars

(* ============== two clients on one database, no lock =================== *)
\* Model takes no lock: the steps of two clients interleave at every access
\* to the file system.  q holds, per client, where it stands in
\* get_parameter_set_dir (kind "set") or in make_run (kind "run").
Callers == {1, 2}
RaceVectors == {<<2, 2>>, <<4, 4>>}

IdleProc ==
    [at |-> "idle", kind |-> "none", p |-> ZeroVec, dir |-> NoDir,
     existed |-> FALSE, raised |-> ""]

Procs == IF q = NoQuery THEN [c \in Callers |-> IdleProc] ELSE q.procs

\* get_parameter_set_dir(time_step, parameters, create=True) up to the test
\* of the closest stored vector: found, failed, or a new directory is needed
SearchParameterSet ==
    \E c \in Callers, ts \in TimeSteps, p \in RaceVectors :
        LET g == get_closest_parameter_set_dir(tsdir, psets, ts, p, TRUE)
            hit == /\ g.raised = "" /\ g.dir # NoDir
                   /\ ~ExceedsMaxDiff(get_parameters_diff(psets, p, g.dir))
            loc == [IdleProc EXCEPT
                      !.kind = "set", !.p = p, !.raised = g.raised,
                      !.dir = IF hit THEN g.dir ELSE <<ts>>,
                      !.at = IF g.raised # "" \/ hit THEN "done" ELSE "searched"]
        IN  /\ Procs[c].at \in {"idle", "done"}
            /\ q' = [op |-> "race", procs |-> [Procs EXCEPT ![c] = loc]]
            /\ UNCHANGED <<tsdir, psets, pc, call, last, env>>

\* get_time_step_dir(time_step, create=True) and "search free index"
SearchFreeIndex ==
    \E c \in Callers :
        /\ Procs[c].at = "searched"
        /\ FreeIndex(psets, Procs[c].dir[1]) \in SetIdx
        /\ tsdir' = [tsdir EXCEPT ![Procs[c].dir[1]] = TRUE]
        /\ q' = [q EXCEPT !.procs[c].at = "listed",
                          !.procs[c].dir = <<Procs[c].dir[1],
                                             FreeIndex(psets, Procs[c].dir[1])>>]
        /\ UNCHANGED <<psets, pc, call, last, env>>

\* make_run(output_path, ...) on the spinup directory of a ParameterSet up
\* to "get next run index": next_run_index = len(run_dirs)
GetNextRunIndex ==
    \E c \in Callers, ts \in TimeSteps, i \in SetIdx :
        /\ Procs[c].at \in {"idle", "done"}
        /\ psets[ts][i].present /\ psets[ts][i].readable
        /\ Len(psets[ts][i].runs) < MaxRuns
        /\ q' = [op |-> "race",
                 procs |-> [Procs EXCEPT ![c] =
                    [IdleProc EXCEPT !.kind = "run", !.p = psets[ts][i].vec,
                                     !.dir = <<ts, i, Len(psets[ts][i].runs)>>,
                                     !.at = "listed"]]]
        /\ UNCHANGED <<tsdir, psets, pc, call, last, env>>

\* os.makedirs(parameter_set_dir) / os.makedirs(run_dir), without exist_ok:
\* FileExistsError when the directory is there, else the empty directory
Makedirs ==
    \E c \in Callers :
        LET d == Procs[c].dir
            exists == IF Procs[c].kind = "set" THEN psets[d[1]][d[2]].present
                      ELSE Len(psets[d[1]][d[2]].runs) > d[3]
            run == [readable |-> FALSE, finished |-> FALSE, lastYear |-> 0,
                    lastTol |-> WorstTol, input |-> NoDir, incYears |-> 0,
                    reqTol |-> 0, ro |-> FALSE,
                    options |-> [years |-> Null, tolerance |-> Null,
                                 time_step |-> Null, ro |-> FALSE]]
        IN  /\ Procs[c].at = "listed"
            /\ IF exists
               THEN /\ q' = [q EXCEPT !.procs[c].at = "done",
                                      !.procs[c].existed = TRUE,
                                      !.procs[c].raised = "FileExistsError"]
                    /\ psets' = psets
               ELSE /\ q' = [q EXCEPT !.procs[c].at = "made"]
                    /\ psets' = IF Procs[c].kind = "set"
                                THEN [psets EXCEPT ![d[1]][d[2]] =
                                         [Absent EXCEPT !.present = TRUE]]
                                ELSE [psets EXCEPT ![d[1]][d[2]].runs =
                                         Append(@, run)]
            /\ UNCHANGED <<tsdir, pc, call, last, env>>

\* the files of the new directory: np.savetxt of the parameters and chmod,
\* or the run options file, chmod and the job of run_job (1 year, tolerance
\* 0, the input state being the run before)
WriteFiles ==
    \E c \in Callers :
        LET d == Procs[c].dir
        IN  /\ Procs[c].at = "made"
            /\ q' = [q EXCEPT !.procs[c].at = "done"]
            /\ psets' = IF Procs[c].kind = "set"
                        THEN [psets EXCEPT ![d[1]][d[2]].readable = TRUE,
                                           ![d[1]][d[2]].ro = TRUE,
                                           ![d[1]][d[2]].vec = savetxt(Procs[c].p)]
                        ELSE [psets EXCEPT ![d[1]][d[2]].runs[d[3] + 1] =
                                 [@ EXCEPT !.readable = TRUE, !.incYears = 1,
                                           !.input = get_previous_run_dir(d),
                                           !.options = run_options(1, 0, d[1])]]
            /\ UNCHANGED <<tsdir, pc, call, last, env>>

NextRace ==
    \/ SearchParameterSet
    \/ SearchFreeIndex
    \/ GetNextRunIndex
    \/ Makedirs
    \/ WriteFiles

SpecRace == Init /\ [][NextRace]_vars

(* ============ the numerics of the entry points f_* and df_* ============ *)
\* One entry of a trajectory tensor as the trajectory job of a run delivers
\* it: a number, or not-a-number.
TrajValues == {[nan |-> FALSE, v |-> 0], [nan |-> FALSE, v |-> 1],
               [nan |-> TRUE, v |-> 0]}
EntryPoints == {"f_all", "f_points", "df_all", "df_points"}
DiffVectors == {p \in Vectors : check_if_parameters_in_bounds(p) = ""}

\* floating-point + and unary - on tensor entries: not-a-number propagates
AddValue(a, b) == [nan |-> a.nan \/ b.nan, v |-> IF a.nan \/ b.nan THEN 0 ELSE a.v + b.v]
NegValue(a) == [a EXCEPT !.v = -a.v]
ZeroValue == [nan |-> FALSE, v |-> 0]

\* variant: the central difference is divided by the first step alone
quotient_by_first_step(order, acc, f, hs) ==
    [nan |-> acc.nan, num |-> acc.v, den |-> hs[1]]

\* "calculate df" for one parameter index: acc is the accumulated sum of
\* (-1)**h_factor_index * trajectory, hs the steps h[parameter_index]; the
\* quotient is kept as numerator and denominator
difference_quotient(order, acc, f, hs) ==
    LET num == IF order = 1 THEN AddValue(acc, NegValue(f)) ELSE acc
        den == IF order = 1 THEN hs[1] ELSE Abs(hs[1]) + Abs(hs[2])
    IN  [nan |-> num.nan \/ (num.v = 0 /\ den = 0),
         num |-> IF num.nan THEN 0 ELSE num.v, den |-> den]

\* the tensor holds a not-a-number entry
HasNaN(tensor) == \E j \in 1..Len(tensor) : tensor[j].nan

\* the assertions of the entry point on its tensor: f_points and df_points
\* assert that no entry is not-a-number, f_all and df_all assert the length only
entry_assertions(entry, tensor) ==
    IF entry \in {"f_points", "df_points"} /\ HasNaN(tensor)
    THEN "AssertionError" ELSE ""

\* the steps, perturbed values and keys the first loop of _df computes for
\* parameters p, in loop order
Steps(p, order) ==
    [k \in 1..(Len(p) * Len(h_factors(order))) |->
        LET nf == Len(h_factors(order))
            i == ((k - 1) \div nf) + 1
            pt == Perturb(p, i, h_factors(order)[((k - 1) % nf) + 1], order)
        IN  [i |-> i, par |-> pt.par, h |-> pt.h, key |-> <<i, Sign(pt.h)>>]]

\* the numeric locals of a call of an entry point
DiffLocals(entry, p, order) ==
    [op |-> "diff", entry |-> entry, p |-> p, order |-> order,
     steps |-> IF entry \in {"f_all", "f_points"} THEN <<>> ELSE Steps(p, order),
     phase |-> IF entry \in {"f_all", "f_points"} \/ order = 1 THEN "f" ELSE "loop",
     f |-> ZeroValue, acc |-> ZeroValue, traj |-> <<>>, trajp |-> <<>>,
     df |-> <<>>, k |-> 1]

\* the call returns (or raises): what the client gets
DiffLast(d, tensor) ==
    [NoLast EXCEPT !.op = d.entry, !.p = d.p, !.flag = (d.order = 2),
                   !.opts = [NoOpts EXCEPT !.combination = d.steps],
                   !.result = IF entry_assertions(d.entry, tensor) = ""
                              THEN tensor ELSE NoDir,
                   !.raised = entry_assertions(d.entry, tensor)]

\* a client calls f_all, f_points, df_all or df_points; the runs are taken
\* as found, the call stands before its first trajectory
DiffCall ==
    \E entry \in EntryPoints, p \in DiffVectors, order \in AccuracyOrders :
        /\ pc = "idle" /\ last = NoLast
        /\ IF q = NoQuery THEN TRUE ELSE q.op = "diff" /\ q.phase = "done"
        /\ (entry \in {"f_all", "f_points"} => order = 2)
        /\ q' = DiffLocals(entry, p, order)
        /\ UNCHANGED <<tsdir, psets, pc, call, last, env>>

\* a parameter vector in fine units
FineVector(p) == [j \in DOMAIN p |-> p[j] * FineScale]

\* _get_trajectory delivers the next trajectory t: the unperturbed one of _f,
\* or the one of the derivative run at position k of the second loop of _df,
\* which is accumulated and, at the last factor of a parameter, divided; the
\* trajectory job of the second loop is run with the vector parameters that
\* _df was called with (trajp); the locals of the call are kept, in phase
\* "done", until the next call
DiffTrajectory ==
    \E t \in TrajValues :
        /\ q # NoQuery /\ q.op = "diff" /\ q.phase # "done" /\ last = NoLast
        /\ IF q.phase = "f"
           THEN IF q.entry \in {"f_all", "f_points"}
                THEN /\ last' = DiffLast(q, <<t>>)
                     /\ q' = [q EXCEPT !.f = t, !.phase = "done"]
                ELSE /\ q' = [q EXCEPT !.f = t, !.phase = "loop"]
                     /\ last' = last
           ELSE LET nf == Len(h_factors(q.order))
                    fi == (q.k - 1) % nf
                    acc == AddValue(q.acc, IF fi % 2 = 0 THEN t ELSE NegValue(t))
                    hs == [j \in 1..nf |-> q.steps[q.k - fi + j - 1].h]
                    df == IF fi = nf - 1
                          THEN Append(q.df, difference_quotient(q.order, acc, q.f, hs))
                          ELSE q.df
                IN  IF q.k = Len(q.steps)
                    THEN /\ last' = DiffLast(q, df)
                         /\ q' = [q EXCEPT !.traj = Append(@, t), !.df = df,
                                           !.trajp = Append(@, FineVector(q.p)),
                                           !.phase = "done"]
                    ELSE /\ q' = [q EXCEPT !.k = @ + 1, !.df = df,
                                           !.traj = Append(@, t),
                                           !.trajp = Append(@, FineVector(q.p)),
                                           !.acc = IF fi = nf - 1 THEN ZeroValue
                                                   ELSE acc]
                         /\ last' = last
        /\ UNCHANGED <<tsdir, psets, pc, call, env>>

NextDiff ==
    \/ DiffCall
    \/ DiffTrajectory
    \/ Return

SpecDiff == Init /\ [][NextDiff]_vars

(* ======================= properties of the resolver ==================== *)
InBounds(p) ==
    \A i \in Dim : /\ MODEL_PARAMETER_LOWER_BOUND[i] <= p[i]
                   /\ p[i] <= MODEL_PARAMETER_UPPER_BOUND[i]

\* the ParameterSets of a time step whose vector can be read
Stored(ps, ts) == {i \in SetIdx : ps[ts][i].present /\ ps[ts][i].readable}

\* the step is a call of op that came back
Called(op) == last.op = "none" /\ last'.op = op

\* C1: resolving an in-bounds parameter vector with create=True is idempotent:
\* the same call made again on the tree the first call left returns the same
\* ParameterSet and changes nothing.
C1_ResolveIdempotent ==
    (last.op = "resolve" /\ last.flag /\ last.raised = "")
    => LET again == get_parameter_set_dir(tsdir, psets, last.ts, last.p, TRUE)
       IN  /\ InBounds(last.p)
           /\ again.raised = ""
           /\ again.result = last.result
           /\ again.ps = psets
           /\ again.td = tsdir

\* a resolve created a ParameterSet whose stored vector is the rounded one
C1_Witness ==
    /\ last.op = "resolve" /\ last.flag /\ last.created
    /\ last.result # NoDir
    /\ psets[last.ts][last.result[2]].vec # last.p

\* C2: a resolve whose closest stored vector is at distance exactly
\* MODEL_PARAMETERS_MAX_DIFF returns that existing ParameterSet and creates
\* nothing; one whose closest stored vector is farther creates a new
\* ParameterSet when create=True.
C2_ThresholdMatching ==
    [][(Called("resolve") /\ last'.raised = "" /\ Stored(psets, last'.ts) # {})
       => LET ts == last'.ts
              p == last'.p
              res == last'.result
              far == \A i \in Stored(psets, ts) :
                        Norm2(p, psets[ts][i].vec) > MaxDiff2
              atT == /\ \A i \in Stored(psets, ts) :
                          Norm2(p, psets[ts][i].vec) >= MaxDiff2
                     /\ ~far
          IN  /\ atT => /\ res # NoDir
                        /\ res[2] \in Stored(psets, ts)
                        /\ Norm2(p, psets[ts][res[2]].vec) = MaxDiff2
                        /\ psets' = psets /\ tsdir' = tsdir
              /\ (far /\ last'.flag)
                   => /\ res # NoDir
                      /\ ~psets[ts][res[2]].present
                      /\ psets'[ts][res[2]].present]_vars

\* a resolve returned an existing ParameterSet exactly at the threshold
C2_Witness ==
    /\ last.op = "resolve" /\ last.raised = "" /\ ~last.created
    /\ last.result # NoDir
    /\ Norm2(last.p, psets[last.ts][last.result[2]].vec) = MaxDiff2

\* C3: without the spinup filter, get_closest_parameter_set_dir returns a
\* stored ParameterSet of minimal distance to the query (none only when
\* nothing is stored); when a candidate has distance 0 the scan stops at it,
\* so that candidate is returned whatever comes after it.
C3_ClosestMinimal ==
    [][(Called("closest") /\ last'.flag /\ InBounds(last'.p))
       => LET ts == last'.ts
              p == last'.p
              res == last'.result
              dist(i) == Norm2(p, psets[ts][i].vec)
          IN  /\ last'.raised = ""
                   => /\ (res = NoDir) <=> (Stored(psets, ts) = {})
                      /\ res # NoDir
                           => /\ res[2] \in Stored(psets, ts)
                              /\ \A j \in Stored(psets, ts) :
                                    dist(res[2]) <= dist(j)
              /\ \A i \in Stored(psets, ts) :
                    (/\ dist(i) = 0
                     /\ \A j \in 0..(i - 1) :
                           psets[ts][j].present
                             => (j \in Stored(psets, ts) /\ dist(j) # 0))
                    => (last'.raised = "" /\ res = <<ts, i>>)]_vars

\* the second of two stored ParameterSets is the closer one, and is returned
C3_Witness ==
    /\ last.op = "closest" /\ last.flag /\ last.raised = ""
    /\ last.result = <<last.ts, 1>>
    /\ 0 \in Stored(psets, last.ts)
    /\ Norm2(last.p, psets[last.ts][1].vec) > 0
    /\ Norm2(last.p, psets[last.ts][1].vec) < Norm2(last.p, psets[last.ts][0].vec)

\* C4: a parameter vector with a component outside its bounds makes
\* get_parameter_set_dir, get_closest_parameter_set_dir and make_run raise;
\* nothing is clamped, no directory is created and no job is submitted.
C4_OutOfBoundsRaises ==
    [][(/\ \/ Called("resolve") \/ Called("closest") \/ Called("make_run")
        /\ ~InBounds(last'.p))
       => /\ last'.raised = "ValueError"
          /\ last'.result = NoDir
          /\ psets' = psets
          /\ tsdir' = tsdir]_vars

\* make_run was called with a component above its upper bound
C4_Witness ==
    /\ last.op = "make_run" /\ last.raised = "ValueError"
    /\ \E i \in Dim : last.p[i] > MODEL_PARAMETER_UPPER_BOUND[i]
    /\ \A i \in Dim : last.p[i] >= MODEL_PARAMETER_LOWER_BOUND[i]

\* C5: when no stored ParameterSet is within the threshold, a resolve with
\* create=False returns null and leaves the tree as it is; with create=True it
\* takes the first index at which no directory exists, writes the vector
\* there read-only, and leaves every existing ParameterSet as it was.
C5_ResolveMiss ==
    [][(/\ Called("resolve") /\ last'.raised = ""
        /\ \A i \in Stored(psets, last'.ts) :
              Norm2(last'.p, psets[last'.ts][i].vec) > MaxDiff2)
       => LET ts == last'.ts
              res == last'.result
          IN  IF last'.flag
              THEN /\ res # NoDir /\ res[1] = ts /\ res[2] \in SetIdx
                   /\ ~psets[ts][res[2]].present
                   /\ \A j \in 0..(res[2] - 1) : psets[ts][j].present
                   /\ psets'[ts][res[2]] =
                        [present |-> TRUE, readable |-> TRUE, ro |-> TRUE,
                         vec |-> [i \in Dim |-> FormatValue(last'.p[i])],
                         runs |-> <<>>, deriv |-> NoDeriv]
                   /\ \A j \in SetIdx \ {res[2]} : psets'[ts][j] = psets[ts][j]
                   /\ tsdir'[ts]
              ELSE /\ res = NoDir
                   /\ psets' = psets
                   /\ tsdir' = tsdir]_vars

\* a ParameterSet was created at index 0 while index 1 was in use
C5_Witness ==
    /\ last.op = "resolve" /\ last.flag /\ last.created
    /\ last.result = <<last.ts, 0>>
    /\ psets[last.ts][1].present

\* C6: a candidate ParameterSet whose parameter file cannot be read is
\* skipped with a warning, and the resolve call does not fail because of it.
\* (The code raises NameError in the handler meant to skip it.)
C6_UnreadableSkipped ==
    (last.op \in {"resolve", "closest"} /\ InBounds(last.p)) => last.raised = ""

(* --------------- the policy check on its own (years in units ------------ *)
(* --------------- of 1000, tolerances in units of 0.1) ------------------- *)
PolicyYears == {0, 1, 2, 3, 5}
PolicyTols == {0, 2, 5, 6}
PolicyOptionSets ==
    [years : {1, 3, 10}, tolerance : {0, 2, 5}, combination : {"or", "and"}]
PolicyDir == <<1, 0>>

FinishedRun(y, t) ==
    [readable |-> TRUE, finished |-> TRUE, lastYear |-> y, lastTol |-> t,
     input |-> NoDir, incYears |-> y, reqTol |-> 0, ro |-> TRUE,
     options |-> run_options(y, 0, PolicyDir[1])]

PolicyChains ==
    {<<>>}
    \cup {<<FinishedRun(y, t)>> : y \in PolicyYears, t \in PolicyTols}
    \cup {<<FinishedRun(y1, 0), FinishedRun(y2, t)>> :
             y1 \in PolicyYears, y2 \in PolicyYears, t \in PolicyTols}

\* a tree with one ParameterSet and a finished spinup chain
InitPolicy ==
    /\ tsdir = [ts \in TimeSteps |-> TRUE]
    /\ \E runs \in PolicyChains :
         psets = [ts \in TimeSteps |-> [i \in SetIdx |->
                    IF <<ts, i>> = PolicyDir
                    THEN [present |-> TRUE, readable |-> TRUE, ro |-> TRUE,
                          vec |-> <<2, 2>>, runs |-> runs, deriv |-> NoDeriv]
                    ELSE Absent]]
    /\ pc = "idle"
    /\ call = IdleCall
    /\ last = NoLast
    /\ env = [faults |-> 0]
    /\ q = NoQuery

\* a client calls is_run_matching_options(run_dir, spinup_options) with the
\* last run of the chain, or with None
PolicyCall ==
    \E opts \in PolicyOptionSets, run \in {NoDir, LastRunPath(psets, PolicyDir)} :
        LET m == is_run_matching_options(psets, run, opts)
        IN  /\ ~q.done
            /\ q' = [run |-> run, opts |-> opts, done |-> TRUE, match |-> m.match,
                     raised |-> m.raised, warned |-> m.warned]
            /\ UNCHANGED <<tsdir, psets, pc, call, last, env>>

NextPolicy == PolicyCall

SpecPolicy == InitPolicy /\ [][NextPolicy]_vars

(* ===================== properties of the spinup chain ================== *)
\* the closest-with-spinup call came back with a ParameterSet
ClosestWithSpinupFound ==
    last.op = "closest" /\ ~last.flag /\ last.result # NoDir

RECURSIVE SumYears(_)
SumYears(runs) ==
    IF runs = <<>> THEN 0 ELSE Head(runs).lastYear + SumYears(Tail(runs))

\* the spinup policy of section 3 on accumulated years and achieved tolerance
PolicySatisfied(years, tol, o) ==
    IF o.combination = "or"
    THEN years >= o.years \/ tol <= o.tolerance
    ELSE (years >= o.years /\ tol <= o.tolerance)
            \/ years >= MODEL_SPINUP_MAX_YEARS

PolicyRuns == psets[PolicyDir[1]][PolicyDir[2]].runs

\* C8: with combination 'or', is_run_matching_options on an existing run is
\* true exactly when the accumulated years reach the policy years or the
\* achieved tolerance is at most the policy tolerance; 5000 years at tolerance
\* 0.2 do not satisfy {10000, 0} and satisfy {1000, 0.5}; for no run (None)
\* it is false.
C8_PolicyOr ==
    (q.done /\ q.opts.combination = "or")
    => /\ q.raised = ""
       /\ q.run = NoDir => ~q.match
       /\ q.run # NoDir
            => LET years == SumYears(PolicyRuns)
                   tol == PolicyRuns[Len(PolicyRuns)].lastTol
               IN  /\ q.match <=> (years >= q.opts.years \/ tol <= q.opts.tolerance)
                   /\ (years = 5 /\ tol = 2 /\ q.opts.years = 10
                         /\ q.opts.tolerance = 0) => ~q.match
                   /\ (years = 5 /\ tol = 2 /\ q.opts.years = 1
                         /\ q.opts.tolerance = 5) => q.match

\* a chain of two runs with 5000 years in all, at tolerance 0.2, against
\* {years: 1000, tolerance: 0.5, combination: 'or'}
C8_Witness ==
    /\ q.done /\ q.run # NoDir /\ q.match
    /\ q.opts = [years |-> 1, tolerance |-> 5, combination |-> "or"]
    /\ Len(PolicyRuns) = 2
    /\ PolicyRuns[1].lastYear = 2 /\ PolicyRuns[2].lastYear = 3
    /\ PolicyRuns[2].lastTol = 2

\* C9: with combination 'and', is_run_matching_options is true exactly when
\* (accumulated years >= policy years and achieved tolerance <= policy
\* tolerance) or accumulated years >= MODEL_SPINUP_MAX_YEARS; a warning is
\* emitted exactly when it is true with the achieved tolerance above the
\* policy tolerance.
C9_PolicyAnd ==
    (q.done /\ q.opts.combination = "and")
    => /\ q.raised = ""
       /\ q.run = NoDir => (~q.match /\ q.warned = {})
       /\ q.run # NoDir
            => LET years == SumYears(PolicyRuns)
                   tol == PolicyRuns[Len(PolicyRuns)].lastTol
               IN  /\ q.match <=> \/ (years >= q.opts.years /\ tol <= q.opts.tolerance)
                                  \/ years >= MODEL_SPINUP_MAX_YEARS
                   /\ (q.warned # {}) <=> (q.match /\ tol > q.opts.tolerance)

\* matched through the ceiling only: the policy years are not reached
C9_Witness ==
    /\ q.done /\ q.run # NoDir /\ q.match /\ q.warned = {"max_years_reached"}
    /\ q.opts.combination = "and"
    /\ SumYears(PolicyRuns) < q.opts.years
    /\ SumYears(PolicyRuns) >= MODEL_SPINUP_MAX_YEARS

\* the last run of a chain whose job options can be loaded, as a position
\* in the chain (0: none)
LastLoadable(runs) ==
    IF \E k \in 1..Len(runs) : runs[k].readable
    THEN CHOOSE k \in 1..Len(runs) :
            runs[k].readable /\ \A j \in (k + 1)..Len(runs) : ~runs[j].readable
    ELSE 0

\* the last readable run of ParameterSet dir exists, its accumulated years
\* can be read, and it satisfies the policy o
ChainSatisfies(dir, o) ==
    LET runs == psets[dir[1]][dir[2]].runs
        k == LastLoadable(runs)
    IN  /\ k > 0
        /\ \A j \in 1..k : runs[j].readable
        /\ PolicySatisfied(SumYears(SubSeq(runs, 1, k)), runs[k].lastTol, o)

\* C10: whenever the last readable run of a ParameterSet's spinup chain
\* satisfies the requested policy, get_spinup_run_dir returns that run at
\* once: it creates no run directory, submits no job and waits on no job.
C10_CheckIsTerminal ==
    [][\A ts \in TimeSteps, i \in SetIdx, opts \in OptionSets, sfc \in BOOLEAN :
         (SpinupStart(ts, i, opts, sfc) /\ ChainSatisfies(<<ts, i>>, opts))
         => /\ pc' = "idle"
            /\ last'.op = "spinup" /\ last'.raised = ""
            /\ last'.result
                 = <<ts, i, LastLoadable(psets[ts][i].runs) - 1>>
            /\ last'.made = 0 /\ last'.waits = 0
            /\ psets' = psets
            /\ tsdir' = tsdir]_vars

\* a call came back with a run, having made no run and waited on none
C10_Witness ==
    /\ last.op = "spinup" /\ last.raised = ""
    /\ last.result # NoDir
    /\ last.made = 0 /\ last.waits = 0
    /\ psets[last.result[1]][last.result[2]].runs[last.result[3] + 1].finished


\* C11: a new spinup run is submitted by get_spinup_run_dir only after the
\* job of the run it takes as its input state (the previous run of the chain
\* or the bootstrap run of the closest ParameterSet) has finished.
C11_NoExtensionOfUnfinishedRun ==
    [][\A ts \in TimeSteps, i \in SetIdx :
         Len(psets'[ts][i].runs) > Len(psets[ts][i].runs)
         => LET new == psets'[ts][i].runs[Len(psets'[ts][i].runs)]
            IN  (new.readable /\ new.input # NoDir)
                => /\ RunAt(psets, new.input).readable
                   /\ RunAt(psets, new.input).finished]_vars

\* the client waits on a run it has submitted on top of an input run, after
\* the wait on that input run
C11_Witness ==
    /\ pc = "wait_new" /\ call.waits >= 1
    /\ RunAt(psets, call.run).input # NoDir
    /\ ~RunAt(psets, call.run).finished


\* C12: along the run indices of every spinup chain the accumulated years
\* never decrease, and every submitted run with index k > 0 has the run at
\* index k-1 of the same directory as its input state.  (The code takes the
\* last run whose job can be loaded as input, and the number of run
\* directories as index.)
C12_ChainMonotone ==
    \A ts \in TimeSteps, i \in SetIdx :
       LET runs == psets[ts][i].runs
       IN  \A k \in 2..Len(runs) :
              /\ (TotalYearsFrom(runs, k) # Null /\ TotalYearsFrom(runs, k - 1) # Null)
                    => TotalYearsFrom(runs, k - 1) <= TotalYearsFrom(runs, k)
              /\ runs[k].readable => runs[k].input = <<ts, i, k - 2>>


\* C13: the years make_run submits to the job are the target years minus the
\* accumulated years of the input run (its own and those of all runs below
\* it) when the input run lives in the directory of the new run, and the
\* full target years when there is no input run or it lives elsewhere.
C13_IncrementalYears ==
    [][\A ts \in TimeSteps, i \in SetIdx :
         Len(psets'[ts][i].runs) > Len(psets[ts][i].runs)
         => LET new == psets'[ts][i].runs[Len(psets'[ts][i].runs)]
                target == call'.cur.years
                inp == new.input
            IN  new.readable
                => IF inp # NoDir /\ inp[1] = ts /\ inp[2] = i
                   THEN new.incYears
                          = target - SumYears(SubSeq(psets[ts][i].runs, 1, inp[3] + 1))
                   ELSE new.incYears = target]_vars

\* a chain extension submitted with fewer years than the target
C13_Witness ==
    /\ pc = "wait_new"
    /\ RunAt(psets, call.run).input # NoDir
    /\ RunAt(psets, call.run).input[2] = call.run[2]
    /\ RunAt(psets, call.run).incYears = 1
    /\ call.cur.years = 2


\* C14: a spinup requested with an 'or' policy {years, tolerance} for a
\* ParameterSet without runs creates exactly one run, at index 0, submitted
\* with the full years and without input state; when the call returns, it
\* returns that run, which is read-only, and no other run was created.
C14_ColdStart ==
    [][/\ \A ts \in TimeSteps, i \in SetIdx, opts \in OptionSets :
            (/\ SpinupStart(ts, i, opts, FALSE)
             /\ opts.combination = "or"
             /\ psets[ts][i].runs = <<>>)
            => /\ pc' = "wait_new"
               /\ call'.run = <<ts, i, 0>>
               /\ psets'[ts][i].runs
                    = <<[readable |-> TRUE, finished |-> FALSE, lastYear |-> 0,
                         lastTol |-> WorstTol, input |-> NoDir,
                         incYears |-> opts.years, reqTol |-> opts.tolerance,
                         ro |-> FALSE,
                         options |-> run_options(opts.years, opts.tolerance,
                                                 ts)]>>
               /\ \A j \in SetIdx \ {i} : psets'[ts][j] = psets[ts][j]
       /\ (/\ pc = "wait_new" /\ pc' = "idle"
           /\ call.stage = "top" /\ call.opts.combination = "or"
           /\ call.run[3] = 0 /\ call.input = NoDir
           /\ last'.op = "spinup" /\ last'.raised = "")
          => /\ last'.result = call.run
             /\ last'.made = 1
             /\ RunAt(psets', call.run).ro
             /\ RunAt(psets', call.run).finished
             /\ \A ts \in TimeSteps, i \in SetIdx :
                   Len(psets'[ts][i].runs) = Len(psets[ts][i].runs)]_vars

\* the cold-start call has returned its one run
C14_Witness ==
    /\ last.op = "spinup" /\ last.raised = ""
    /\ last.made = 1 /\ last.waits = 1
    /\ last.result = <<last.ps[1], last.ps[2], 0>>
    /\ Len(psets[last.ps[1]][last.ps[2]].runs) = 1
    /\ RunAt(psets, last.result).input = NoDir
    /\ RunAt(psets, last.result).ro
    /\ RunAt(psets, last.result).lastYear = RunAt(psets, last.result).incYears

(* ================= properties of the derivative orchestrator =========== *)
\* the run directory r1 holds what the completed run r0 held; that its job
\* files can no longer be read (an I/O failure) is no change of the directory
SameRun(r0, r1) == [r1 EXCEPT !.readable = r0.readable] = r0

\* every completed read-only run of the sequence runs0 is still in runs1
KeepsCompleted(runs0, runs1) ==
    \A k \in 1..Len(runs0) :
        (runs0[k].finished /\ runs0[k].ro)
        => (Len(runs1) >= k /\ SameRun(runs0[k], runs1[k]))

\* C15: once the job of a run has reported completion and the run has been
\* marked read-only, no step of the system (spinup extension, derivative
\* computation with its purge, trajectory extraction) changes or deletes the
\* run directory, in the spinup area or in the derivative area.
C15_CompletedRunsImmutable ==
    [][\A ts \in TimeSteps, i \in SetIdx :
         /\ KeepsCompleted(psets[ts][i].runs, psets'[ts][i].runs)
         /\ \A key \in DerivKeys :
              KeepsCompleted(psets[ts][i].deriv[key],
                             psets'[ts][i].deriv[key])]_vars

(* ===================== properties of make_run ========================== *)
\* C16: make_run writes the run configuration (years, tolerance and time step
\* as requested) and makes it read-only before the job is initialised or
\* started: every run directory of a spinup area, the ones a failed make_run
\* left without a job included, holds the configuration read-only; a new run
\* holds the values of the request; and no later step changes the
\* configuration of a run, whatever years and tolerance its job ends with.
C16_RunOptionsFixed ==
    [][\A ts \in TimeSteps, i \in SetIdx :
         LET runs0 == psets[ts][i].runs
             runs1 == psets'[ts][i].runs
         IN  /\ Len(runs1) >= Len(runs0)
             /\ \A k \in 1..Len(runs0) : runs1[k].options = runs0[k].options
             /\ \A k \in 1..Len(runs1) : runs1[k].options.ro
             /\ \A k \in (Len(runs0) + 1)..Len(runs1) :
                  /\ call' # IdleCall
                     => runs1[k].options
                          = [years |-> all_spinup_options(call'.cur).years,
                             tolerance |-> all_spinup_options(call'.cur).tolerance,
                             time_step |-> ts, ro |-> TRUE]
                  /\ last'.op = "spinup"
                     => ~runs1[k].readable]_vars

\* a finished run whose job stopped before the years of its configuration
C16_Witness ==
    \E ts \in TimeSteps, i \in SetIdx :
      \E k \in 1..Len(psets[ts][i].runs) :
        LET r == psets[ts][i].runs[k]
        IN  /\ r.finished /\ r.ro /\ r.options.ro
            /\ r.lastYear < r.incYears
            /\ r.options.years = 2 /\ r.options.tolerance = 0

\* C17: when the job of a run being created fails, the failure reaches the
\* caller of get_spinup_run_dir, the run directory with its configuration
\* stays in place, and no further job is submitted for the request.  Failure
\* at init or start: the step ends the call with the error and leaves exactly
\* one new run directory, read-only configured, in the spinup area of the
\* request, nothing new elsewhere, and the older runs as they were (but for
\* the read-only mark of the run waited for).  Failure of the wait on the new run
\* (its job cannot be loaded): the call ends with the error and the tree is
\* as before.
C17_JobFailurePropagates ==
    [][/\ (last'.op = "spinup" /\ last'.raised = "JobError")
          => /\ pc' = "idle" /\ call' = IdleCall
             /\ last'.result = NoDir
             /\ \A ts \in TimeSteps, i \in SetIdx :
                  LET runs0 == psets[ts][i].runs
                      runs1 == psets'[ts][i].runs
                  IN  /\ \A k \in 1..Len(runs0) :
                           /\ k <= Len(runs1)
                           /\ [runs1[k] EXCEPT !.ro = runs0[k].ro] = runs0[k]
                      /\ IF <<ts, i>> = last'.ps
                         THEN /\ Len(runs1) = Len(runs0) + 1
                              /\ runs1[Len(runs1)].options.ro
                              /\ ~runs1[Len(runs1)].finished
                         ELSE Len(runs1) = Len(runs0)
       /\ (/\ pc = "wait_new" /\ last = NoLast /\ last' # NoLast
           /\ ~RunAt(psets, call.run).readable)
          => /\ pc' = "idle" /\ call' = IdleCall
             /\ last'.raised = "OSError" /\ last'.result = NoDir
             /\ psets' = psets]_vars

\* a call ended by the failure of its job, the run directory still there
C17_Witness ==
    /\ last.op = "spinup" /\ last.raised = "JobError" /\ last.made = 1
    /\ \E k \in 1..Len(psets[last.ps[1]][last.ps[2]].runs) :
         LET r == psets[last.ps[1]][last.ps[2]].runs[k]
         IN  ~r.readable /\ ~r.finished /\ r.options.ro /\ r.options.years >= 1

\* the derivative run the current _df call holds at position j of its loops
HeldRun(j) == DerivRunAt(psets, q.ps, q.dirs[j])

\* C18: _df submits every derivative run it has to create, over all parameter
\* indices and factors, before it blocks on any derivative run, and then waits
\* run by run in (parameter index, factor index) order: whenever the call
\* blocks on a derivative run or extracts its trajectory, every position of
\* the loop has its run directory, position j belongs to parameter
\* (j - 1) div factors + 1, the runs before the current position have been
\* waited for (read-only) and no run made by this call after it has.
C18_SubmitAllBeforeAwait ==
    (pc \in {"df_wait", "df_traj"} /\ q.phase # "f_traj")
    => LET nf == Len(h_factors(q.order))
           n == Len(q.p) * nf
       IN  /\ q.phase \in {"wait", "traj"}
           /\ Len(q.dirs) = n /\ q.k \in 1..n
           /\ \A j \in 1..n :
                /\ q.dirs[j].key[1] = ((j - 1) \div nf) + 1
                /\ q.dirs[j].idx < Len(psets[q.ps[1]][q.ps[2]].deriv[q.dirs[j].key])
                /\ j < q.k => HeldRun(j).ro
                /\ (j > q.k /\ q.fresh[j]) => ~HeldRun(j).ro
                /\ (j = q.k /\ q.fresh[j] /\ q.phase = "wait") => ~HeldRun(j).ro

\* the call blocks on its first derivative run with all four runs of a
\* central difference submitted and none finished
C18_Witness ==
    /\ pc = "df_wait" /\ q.phase = "wait" /\ q.k = 1 /\ q.order = 2
    /\ \A j \in 1..4 : q.fresh[j] /\ ~HeldRun(j).finished

\* the last run of a partial derivative directory satisfies the derivative
\* spinup policy: years reached or tolerance 0 reached
SatisfiesDerivativePolicy(runs) ==
    /\ runs # <<>>
    /\ runs[Len(runs)].readable
    /\ \/ SumYears(runs) >= MODEL_DERIVATIVE_SPINUP_YEARS
       \/ runs[Len(runs)].lastTol <= 0

\* the step of a _df call that runs its submit loop
SubmitStep ==
    /\ q' # NoQuery /\ q'.phase = "wait" /\ q'.k = 1
    /\ (q = NoQuery \/ q.phase # "wait")

NoBoundViolated(p, i) ==
    /\ p[i] * FineScale - StepSize(p[i]) >= MODEL_PARAMETER_LOWER_BOUND[i] * FineScale
    /\ p[i] * FineScale + StepSize(p[i]) <= MODEL_PARAMETER_UPPER_BOUND[i] * FineScale

\* C20 as stated: for accuracy order 2 and every parameter index i for which
\* neither parameters[i] + h_i nor parameters[i] - h_i violates a bound, with
\* h_i = max(|parameters[i]|, 0.1) * eta, the two realized steps are +h_i and
\* -h_i, equal in absolute value and opposite in sign.
C20_CentralDifferenceSymmetry ==
    (q # NoQuery /\ q.order = 2 /\ q.phase \in {"wait", "traj"})
    => \A i \in 1..Len(q.p) :
         NoBoundViolated(q.p, i)
         => /\ q.h[2 * i - 1] = StepSize(q.p[i])
            /\ q.h[2 * i] = -StepSize(q.p[i])
            /\ q.h[2 * i - 1] + q.h[2 * i] = 0

\* the realized step h is the step h_i in direction sign as floating-point
\* arithmetic takes it from x: off by at most half the spacing at x + sign * h_i
RoundedStep(x, sign, h_i, h) ==
    /\ Sign(h) = sign
    /\ 2 * Abs(h - sign * h_i) <= FloatSpacing(x + sign * h_i)
    /\ x + h = fl(x + sign * h_i)

\* C20, amended: under the same conditions the two realized steps are
\* fl(parameters[i] + h_i) - parameters[i] and fl(parameters[i] - h_i) -
\* parameters[i]: opposite in sign, each within half a floating-point spacing
\* of +h_i and -h_i, and filed under the keys (i, +1) and (i, -1); for the
\* steps a _df call has computed, and for every vector of the grid.
C20_RealizedStepsRounded ==
    /\ (q # NoQuery /\ q.order = 2 /\ q.phase \in {"wait", "traj"})
       => \A i \in 1..Len(q.p) :
            NoBoundViolated(q.p, i)
            => /\ RoundedStep(q.p[i] * FineScale, 1, StepSize(q.p[i]),
                              q.h[2 * i - 1])
               /\ RoundedStep(q.p[i] * FineScale, -1, StepSize(q.p[i]),
                              q.h[2 * i])
               /\ q.dirs[2 * i - 1].key = <<i, 1>>
               /\ q.dirs[2 * i].key = <<i, -1>>
    /\ \A p \in Vectors, i \in Dim :
         NoBoundViolated(p, i)
         => /\ RoundedStep(p[i] * FineScale, 1, StepSize(p[i]),
                           Perturb(p, i, h_factors(2)[1], 2).h)
            /\ RoundedStep(p[i] * FineScale, -1, StepSize(p[i]),
                           Perturb(p, i, h_factors(2)[2], 2).h)

\* a central difference whose second parameter, 3 with h_i = 0.3, steps by
\* +0.28 and -0.30 while the first, at its upper bound, is clamped to 0
C20_Witness ==
    /\ q # NoQuery /\ q.order = 2 /\ q.phase = "wait"
    /\ q.p = <<4, 3>>
    /\ q.h = <<0, -40, 28, -30>>

(* ============ properties of the numerics of f_* and df_* =============== *)
\* a call of df_all or df_points stands in its loops
InDf == q # NoQuery /\ q.op = "diff" /\ q.entry \in {"df_all", "df_points"}

\* C21: for accuracy order 2 a parameter at its upper bound gets a perturbed
\* value equal to the bound (realized step 0) in the positive direction and
\* the full step max(|p|, 0.1) * eta, as floating-point subtraction takes it,
\* in the negative direction; whenever a step would cross a bound the
\* perturbed value is exactly that bound, and h is always the perturbed value
\* minus the original one.
C21_BoundaryClamp ==
    (InDf /\ q.order = 2)
    => \A i \in 1..Len(q.p) :
         LET at == q.p[i] * FineScale
             lo == MODEL_PARAMETER_LOWER_BOUND[i] * FineScale
             up == MODEL_PARAMETER_UPPER_BOUND[i] * FineScale
             h_i == StepSize(q.p[i])
             plus == q.steps[2 * i - 1]
             minus == q.steps[2 * i]
         IN  /\ plus.h = plus.par - at /\ minus.h = minus.par - at
             /\ at + h_i > up => plus.par = up
             /\ at + h_i < lo => plus.par = lo
             /\ at - h_i > up => minus.par = up
             /\ at - h_i < lo => minus.par = lo
             /\ at = up
                => /\ plus.par = up /\ plus.h = 0
                   /\ RoundedStep(at, -1, h_i, minus.h)

\* a central difference at parameters whose first component is at its upper
\* bound: steps 0 and -0.40
C21_Witness ==
    /\ InDf /\ q.order = 2 /\ q.p[1] = MODEL_PARAMETER_UPPER_BOUND[1]
    /\ q.steps[1].par = 400 /\ q.steps[1].h = 0 /\ q.steps[2].h = -40

KeysOf(i) == {q.steps[k].key : k \in {j \in 1..Len(q.steps) : q.steps[j].i = i}}

\* C22: in a derivative computation every derivative run directory is keyed
\* by (parameter index, sign) with sign +1 or -1; accuracy order 1 uses
\* exactly one key per parameter index, accuracy order 2 exactly the two
\* keys +1 and -1, also for a parameter on one of its bounds.
C22_DerivativeRunKeying ==
    InDf
    => \A i \in 1..Len(q.p) :
         /\ \A key \in KeysOf(i) : key[1] = i /\ key[2] \in {1, -1}
         /\ q.order = 1 => Cardinality(KeysOf(i)) = 1
         /\ q.order = 2 => KeysOf(i) = {<<i, 1>>, <<i, -1>>}

\* C23: every tensor returned by f_all, f_points, df_all or df_points has no
\* not-a-number entry; when a run yields a not-a-number trajectory value the
\* entry point raises instead of returning the tensor.
C23_NoNaNReturned ==
    (last.op \in EntryPoints /\ last.raised = "") => ~HasNaN(last.result)

\* C25: with accuracy order 1, when parameters[i] + h_i violates the lower or
\* the upper bound the step becomes -h_i: the perturbed value is
\* parameters[i] - h_i, not the bound, and the run is keyed with sign -1;
\* otherwise the step is +h_i and the sign +1.  Sums and differences are the
\* floating-point ones.
C25_ForwardReflection ==
    (InDf /\ q.order = 1)
    => /\ Len(q.steps) = Len(q.p)
       /\ \A i \in 1..Len(q.p) :
            LET at == q.p[i] * FineScale
                lo == MODEL_PARAMETER_LOWER_BOUND[i] * FineScale
                up == MODEL_PARAMETER_UPPER_BOUND[i] * FineScale
                h_i == StepSize(q.p[i])
                step == q.steps[i]
            IN  IF fl(at + h_i) < lo \/ fl(at + h_i) > up
                THEN /\ step.par = fl(at - h_i)
                     /\ step.par # up /\ step.par # lo
                     /\ RoundedStep(at, -1, h_i, step.h)
                     /\ step.key = <<i, -1>>
                ELSE /\ step.par = fl(at + h_i)
                     /\ RoundedStep(at, 1, h_i, step.h)
                     /\ step.key = <<i, 1>>

\* a forward difference at <<4, 3>>: the first component, on its upper bound,
\* steps back to 3.60 under sign -1, the second steps on under sign +1
C25_Witness ==
    /\ InDf /\ q.order = 1 /\ q.p = <<4, 3>>
    /\ q.steps[1].par = 360 /\ q.steps[1].h = -40 /\ q.steps[1].key = <<1, -1>>
    /\ q.steps[2].h > 0 /\ q.steps[2].key = <<2, 1>>

\* C26: for each parameter index i the derivative is, with accuracy order 2,
\* the trajectory of the run of factor index 0 minus the trajectory of the run
\* of factor index 1, divided by |h[i,0]| + |h[i,1]|; with accuracy order 1
\* the trajectory of the perturbed run minus the unperturbed trajectory f,
\* divided by the signed step h[i,0]; and this is the tensor df returns.
C26_DifferenceQuotient ==
    InDf
    => /\ \A i \in 1..Len(q.df) :
            LET first == IF q.order = 2 THEN 2 * i - 1 ELSE i
                minuend == q.traj[first]
                subtrahend == IF q.order = 2 THEN q.traj[2 * i] ELSE q.f
                difference == AddValue(minuend, NegValue(subtrahend))
            IN  /\ q.df[i].nan = difference.nan
                /\ q.df[i].num = difference.v
                /\ q.df[i].den = IF q.order = 2
                                 THEN Abs(q.steps[2 * i - 1].h) + Abs(q.steps[2 * i].h)
                                 ELSE q.steps[i].h
       /\ (q.phase = "done" /\ last.op = q.entry /\ last.raised = "")
          => /\ last.result = q.df
             /\ Len(q.df) = Len(q.p)

\* a central difference at <<4, 3>> has returned: trajectories 1 and 0 over
\* the steps 0 and -0.40, then 0 and 1 over the steps +0.28 and -0.30
C26_Witness ==
    /\ InDf /\ q.order = 2 /\ q.phase = "done" /\ q.p = <<4, 3>>
    /\ last.op = q.entry /\ last.raised = ""
    /\ last.result = <<[nan |-> FALSE, num |-> 1, den |-> 40],
                       [nan |-> FALSE, num |-> -1, den |-> 58]>>

(* ============ further properties of the spinup chain manager =========== *)
\* C24: a get_spinup_run_dir call with combination 'and' makes its two nested
\* 'or' calls, creates at most two new runs and, every job running until its
\* years or its tolerance is reached, returns a run that satisfies the 'and'
\* policy it was called with.
C24_AndReturnsMatchingRun ==
    (last.op = "spinup" /\ last.opts.combination = "and" /\ last.raised = "")
    => /\ last.made <= 2
       /\ last.result # NoDir
       /\ is_run_matching_options(psets, last.result, last.opts).match

\* C28: get_last_run_dir returns the run directory of highest index whose job
\* configuration can be loaded, or None when there is none; a run whose
\* configuration cannot be read is never returned, and a call that only
\* searches (it ends without a wait and without a new run) leaves every
\* directory as it was.
C28_FindSkipsUnreadable ==
    [][/\ \A ts \in TimeSteps, i \in SetIdx :
            LET runs == psets'[ts][i].runs
                found == get_last_run_dir(psets', <<ts, i>>)
            IN  IF found = Null
                THEN \A k \in 1..Len(runs) : ~runs[k].readable
                ELSE /\ found \in 0..(Len(runs) - 1)
                     /\ runs[found + 1].readable
                     /\ \A k \in (found + 2)..Len(runs) : ~runs[k].readable
       /\ (last' # NoLast /\ last'.op = "spinup"
              /\ last'.made = 0 /\ last'.waits = 0)
          => /\ psets' = psets
             /\ last'.raised = ""
                => last'.result = <<last'.ps[1], last'.ps[2],
                                    get_last_run_dir(psets, last'.ps)>>
      ]_vars

\* a call has returned run 0 of a chain whose run 1 cannot be loaded
C28_Witness ==
    /\ last.op = "spinup" /\ last.raised = "" /\ last.made = 0 /\ last.waits = 0
    /\ last.result # NoDir /\ last.result[3] = 0
    /\ Len(psets[last.ps[1]][last.ps[2]].runs) = 2
    /\ ~psets[last.ps[1]][last.ps[2]].runs[2].readable

\* the call get_spinup_run_dir(<<ts, i>>, opts, sfc) finds no matching run
\* and can read its parameters: it goes on to a new run
NeedsNewRun(ts, i, opts) ==
    /\ psets[ts][i].readable
    /\ is_run_matching_options(psets, LastRunPath(psets, <<ts, i>>), opts).raised = ""
    /\ ~is_run_matching_options(psets, LastRunPath(psets, <<ts, i>>), opts).match

\* C29: the closest ParameterSet is looked up only when the own chain has no
\* readable run and start_from_closest_parameters is set; the new run is then
\* created at index 0 of the own chain with the last run of the closest other
\* ParameterSet as input state and the full target years; when the own chain
\* has a run, the input state is its last run.
C29_Bootstrap ==
    [][/\ \A ts \in TimeSteps, i \in SetIdx, opts \in OptionSets, sfc \in BOOLEAN :
            (/\ SpinupStart(ts, i, opts, sfc)
             /\ opts.combination = "or"
             /\ NeedsNewRun(ts, i, opts))
            => IF get_last_run_dir(psets, <<ts, i>>) = Null /\ sfc
               THEN /\ pc' = "wait_last"
                    /\ call'.input # NoDir
                    /\ <<call'.input[1], call'.input[2]>> # <<ts, i>>
                    /\ call'.input
                         = LastRunPath(psets,
                              get_closest_parameter_set_dir(tsdir, psets, ts,
                                  psets[ts][i].vec, FALSE).dir)
               ELSE pc' # "idle"
                    => call'.input = LastRunPath(psets, <<ts, i>>)
       /\ (/\ pc = "wait_last" /\ pc' = "wait_new"
           /\ call.stage = "top" /\ call.opts.combination = "or"
           /\ <<call.input[1], call.input[2]>> # call.ps)
          => /\ call'.run = <<call.ps[1], call.ps[2], 0>>
             /\ RunAt(psets', call'.run).input = call.input
             /\ RunAt(psets', call'.run).incYears = call.opts.years]_vars

(* ========== further properties of the derivative orchestrator ========== *)
\* the accumulated years of the input state of the derivative runs
BaseYears == IF q.base = NoDir THEN 0 ELSE get_total_years(psets, q.base)

C30_AlreadyDoneUnderRace ==
    (q # NoQuery /\ q.op = "race")
    => \A c \in Callers :
         q.procs[c].existed => (q.procs[c].at = "done" /\ q.procs[c].raised = "")

(* ============== further properties of the resolver ==================== *)
\* C31: under sequential use, after any sequence of get_parameter_set_dir
\* calls no two ParameterSets of one time step have stored vectors within
\* Euclidean distance MODEL_PARAMETERS_MAX_DIFF of each other, and the
\* stored vector of an existing ParameterSet never changes.
C31_StoredVectorsApart ==
    [][/\ \A ts \in TimeSteps, i \in SetIdx, j \in SetIdx :
            (/\ i # j
             /\ psets'[ts][i].present /\ psets'[ts][i].readable
             /\ psets'[ts][j].present /\ psets'[ts][j].readable)
            => ExceedsMaxDiff(Norm2(psets'[ts][i].vec, psets'[ts][j].vec))
       /\ \A ts \in TimeSteps, i \in SetIdx :
            (/\ psets[ts][i].present /\ psets[ts][i].readable
             /\ psets'[ts][i].present /\ psets'[ts][i].readable)
            => psets'[ts][i].vec = psets[ts][i].vec]_vars

(* ======== further properties of the spinup chain manager, II =========== *)
\* C32: the assertion years >= 0 of run_job holds in every execution: the
\* years make_run computes for the job, the target minus the accumulated
\* years of the input run, are never negative, also when the input run was
\* still running when the policy was checked.
C32_JobYearsNeverNegative ==
    /\ last.raised # "AssertionError"
    /\ \A ts \in TimeSteps, i \in SetIdx :
         \A k \in 1..Len(psets[ts][i].runs) : psets[ts][i].runs[k].incYears >= 0

(* ======== further properties of the derivative orchestrator, II ======== *)
\* C33: no job reads an unfinished run as input: every derivative run _df
\* submits and every trajectory job of _f takes as input state a run whose
\* job has finished, also when get_spinup_run_dir returned that run because
\* it satisfied the policy, without waiting for it.
C33_InputRunsFinished ==
    [][/\ \A ts \in TimeSteps, i \in SetIdx, key \in DerivKeys :
            Len(psets'[ts][i].deriv[key]) > 0
            => LET new == psets'[ts][i].deriv[key][Len(psets'[ts][i].deriv[key])]
               IN  (/\ new \notin {psets[ts][i].deriv[key][k] :
                                      k \in 1..Len(psets[ts][i].deriv[key])}
                    /\ ~new.finished /\ new.input # NoDir)
                   => RunAt(psets, new.input).finished
       /\ (q' # NoQuery /\ q'.op = "df" /\ q'.phase = "f_traj")
          => RunAt(psets', q'.frun).finished]_vars

\* C34: every derivative run a _df call uses, newly created or found in the
\* derivative area, has the base spinup run of that call as its input state;
\* a derivative run started from another, older base run is never reused.
C34_DerivativeRunsFromBase ==
    (q # NoQuery /\ q.op = "df" /\ q.phase \in {"wait", "traj"})
    => \A k \in 1..Len(q.dirs) :
         DerivRunAt(psets, q.ps, q.dirs[k]).input = q.base

(* ======== further properties of the spinup chain manager, III ========== *)
\* C35: get_spinup_run_dir with start_from_closest_parameters set, on a
\* ParameterSet without runs while no other ParameterSet of the time step
\* has a spinup run, does not fail: it creates the first run of the chain
\* without input state and with the full target years.
C35_ColdStartWithoutClosest ==
    [][\A ts \in TimeSteps, i \in SetIdx, opts \in OptionSets :
         (/\ SpinupStart(ts, i, opts, TRUE)
          /\ opts.combination = "or"
          /\ psets[ts][i].readable
          /\ psets[ts][i].runs = <<>>
          /\ \A j \in SetIdx : get_last_run_dir(psets, <<ts, j>>) = Null)
         => /\ last' = NoLast
            /\ pc' = "wait_new"
            /\ call'.run = <<ts, i, 0>>
            /\ Len(psets'[ts][i].runs) = 1
            /\ psets'[ts][i].runs[1].input = NoDir
            /\ psets'[ts][i].runs[1].incYears = opts.years]_vars

(* ====== the first loop of _df under the bounds a Model may be given ==== *)

\* self.parameters_lower_bound and self.parameters_upper_bound are taken
\* from constants the sources do not fix: the bounds of the model above, a
\* wider interval, and bounds that pin one of the parameters to a value
ParameterBounds ==
    {[lo |-> MODEL_PARAMETER_LOWER_BOUND, up |-> MODEL_PARAMETER_UPPER_BOUND],
     [lo |-> <<1, 1>>, up |-> <<5, 5>>],
     [lo |-> <<2, 3>>, up |-> <<4, 3>>],
     [lo |-> <<4, 2>>, up |-> <<4, 4>>]}

\* _df is called with parameters inside the bounds; the locals before the
\* first pass of the loop that starts the derivative runs
DispatchCall ==
    \E b \in ParameterBounds, p \in Vectors, order \in AccuracyOrders :
        /\ pc = "idle" /\ last = NoLast
        /\ IF q = NoQuery THEN TRUE ELSE q.op = "dispatch" /\ q.phase = "done"
        /\ \A i \in Dim : b.lo[i] <= p[i] /\ p[i] <= b.up[i]
        /\ q' = [op |-> "dispatch", lo |-> b.lo, up |-> b.up, p |-> p,
                 order |-> order, k |-> 1, der |-> <<>>, raised |-> "",
                 phase |-> "loop"]
        /\ UNCHANGED <<tsdir, psets, pc, call, last, env>>

\* one pass of the loop: the parameter is perturbed, the bounds are
\* considered and make_run checks the perturbed vector before anything is
\* written; its ValueError ends the call
DispatchStep ==
    /\ q # NoQuery /\ q.op = "dispatch" /\ q.phase = "loop"
    /\ LET nf == Len(h_factors(q.order))
           i == ((q.k - 1) \div nf) + 1
           pt == PerturbWithin(q.p, i, h_factors(q.order)[((q.k - 1) % nf) + 1],
                               q.order, q.lo[i] * FineScale, q.up[i] * FineScale)
           raised == IF pt.par < q.lo[i] * FineScale \/ pt.par > q.up[i] * FineScale
                     THEN "ValueError" ELSE ""
       IN  q' = [q EXCEPT !.der = Append(@, pt.par), !.raised = raised,
                          !.k = IF raised = "" THEN @ + 1 ELSE @,
                          !.phase = IF raised # "" \/ q.k = Len(q.p) * nf
                                    THEN "done" ELSE "loop"]
    /\ UNCHANGED <<tsdir, psets, pc, call, last, env>>

NextDispatch ==
    \/ DispatchCall
    \/ DispatchStep

SpecDispatch == Init /\ [][NextDispatch]_vars

C37_TrajectoryWithPerturbed ==
    (q # NoQuery /\ q.op = "diff")
    => \A k \in 1..Len(q.trajp) :
         q.trajp[k] = [FineVector(q.p) EXCEPT ![q.steps[k].i] = q.steps[k].par]

(* ================= the spinup options on their own ===================== *)

\* the spinup_options a client may pass: None (NoOpts), or a dict in which
\* each key is either missing (Null, and "missing" for the combination) or
\* holds a value; "xor" stands for a combination other than 'and' and 'or'
SuppliedOptions ==
    {NoOpts} \cup [years : {Null, 1, 2, 3, 5, 10}, tolerance : {Null, 0, 1, 2, 5},
                   combination : {"missing", "and", "or", "xor"}]

\* a client calls all_spinup_options(spinup_options)
OptionsCall ==
    \E opts \in SuppliedOptions :
        /\ pc = "idle" /\ last = NoLast
        /\ IF q = NoQuery THEN TRUE ELSE q.op = "options"
        /\ q' = [op |-> "options", opts |-> opts, all |-> all_spinup_options(opts)]
        /\ UNCHANGED <<tsdir, psets, pc, call, last, env>>

NextOptions == OptionsCall

SpecOptions == Init /\ [][NextOptions]_vars

\* C38: for each of years, tolerance and combination, all_spinup_options
\* returns the supplied value when it is present (and, for the combination,
\* valid), the value of default_spinup_options when the options are None,
\* lack the key or hold an invalid combination, and never None
C38_OptionDefaults ==
    (q # NoQuery /\ q.op = "options")
    => /\ \A key \in {"years", "tolerance"} :
            /\ q.all[key] = IF q.opts # NoOpts /\ q.opts[key] # Null
                            THEN q.opts[key] ELSE default_spinup_options[key]
            /\ q.all[key] # Null
       /\ q.all.combination = IF q.opts # NoOpts /\ q.opts.combination \in {"and", "or"}
                              THEN q.opts.combination
                              ELSE default_spinup_options.combination

(* ============ saving the cost function values as batch jobs ============ *)
(* ============ (simulation/optimization/save_all.py) ==================== *)

NumCostFunctions == 3
EvalFlags == [f : BOOLEAN, df : BOOLEAN, d2f : BOOLEAN]

\* "check if evaluation is needed": eval_f_for_cf, eval_df_for_cf and
\* eval_d2f_for_cf from the values requested and the values available
evaluation_needed(eval, avail) ==
    [f |-> eval.f /\ ~avail.f, df |-> eval.df /\ ~avail.df,
     d2f |-> eval.d2f /\ ~avail.d2f]

\* save: the serial evaluation computes something for the cost function
save_evaluates(eval, avail) ==
    LET need == evaluation_needed(eval, avail)
    IN  need.f \/ need.df \/ need.d2f

\* "start job if needed": the condition under which
\* save_for_all_measurements_as_jobs starts a CostFunctionJob
job_started(need) == need.f \/ need.df

\* "wait for running jobs to finish": the loop waits for one job first
queue_full(running, max) == Len(running) > max

\* wait_for_next_job: the oldest job is taken from running_jobs and awaited;
\* a JobError of the wait is logged
wait_for_next_job(d, ok) ==
    [d EXCEPT !.running = Tail(@), !.awaited = Append(@, Head(d.running)),
              !.failed = IF ok THEN @ ELSE @ \cup {Head(d.running)}]

\* save_for_all_measurements_as_jobs is called, once in a run of the script:
\* the values requested, max_parallel_jobs and what is available for each
\* cost function; without a value requested nothing is done
JobsCall ==
    /\ pc = "idle" /\ last = NoLast
    /\ q = NoQuery
    /\ \E eval \in EvalFlags, max \in {1, 2},
          avail \in [1..NumCostFunctions -> EvalFlags] :
          q' = [op |-> "jobs", eval |-> eval, max |-> max, avail |-> avail,
                k |-> 1, running |-> <<>>, started |-> <<>>, awaited |-> <<>>,
                failed |-> {}, seen |-> {},
                phase |-> IF eval.f \/ eval.df \/ eval.d2f THEN "loop" ELSE "done"]
    /\ UNCHANGED <<tsdir, psets, pc, call, last, env>>

\* one pass of the loop over the cost functions: if an evaluation is needed
\* and the queue is full, one job is awaited; then the job is started
JobsIterate ==
    \E ok \in BOOLEAN :
        /\ q # NoQuery /\ q.op = "jobs" /\ q.phase = "loop"
        /\ LET need == evaluation_needed(q.eval, q.avail[q.k])
               waits == (need.f \/ need.df \/ need.d2f) /\ queue_full(q.running, q.max)
               w == IF waits THEN wait_for_next_job(q, ok) ELSE q
           IN  /\ (~waits => ok)
               /\ q' = [w EXCEPT !.running = IF job_started(need)
                                             THEN Append(@, q.k) ELSE @,
                                 !.started = IF job_started(need)
                                             THEN Append(@, q.k) ELSE @,
                                 !.seen = @ \cup {q.k},
                                 !.k = IF q.k = NumCostFunctions THEN @ ELSE @ + 1,
                                 !.phase = IF q.k = NumCostFunctions
                                           THEN IF job_started(need) \/ w.running # <<>>
                                                THEN "drain" ELSE "done"
                                           ELSE "loop"]
        /\ UNCHANGED <<tsdir, psets, pc, call, last, env>>

\* "remove all jobs": the jobs left are awaited one by one
JobsDrain ==
    \E ok \in BOOLEAN :
        /\ q # NoQuery /\ q.op = "jobs" /\ q.phase = "drain"
        /\ q' = [wait_for_next_job(q, ok) EXCEPT
                    !.phase = IF Len(q.running) = 1 THEN "done" ELSE "drain"]
        /\ UNCHANGED <<tsdir, psets, pc, call, last, env>>

NextJobs ==
    \/ JobsCall
    \/ JobsIterate
    \/ JobsDrain

SpecJobs == Init /\ [][NextJobs]_vars

\* C39: the number of jobs started and not yet awaited never exceeds
\* max_parallel_jobs, the jobs are awaited in the order they were started,
\* and when the function returns every started job has been awaited, also
\* after a job has failed
C39_BoundedFifoQueue ==
    (q # NoQuery /\ q.op = "jobs")
    => /\ Len(q.running) <= q.max
       /\ q.started = q.awaited \o q.running
       /\ (q.phase = "done" => q.running = <<>> /\ q.awaited = q.started)

\* C40: a job is started for a cost function exactly when one of f, df and
\* d2f is requested and not yet available, like the serial save evaluates,
\* also when only d2f is requested and missing
C40_JobsLikeSerial ==
    (q # NoQuery /\ q.op = "jobs")
    => \A k \in q.seen :
         (\E j \in 1..Len(q.started) : q.started[j] = k)
         <=> save_evaluates(q.eval, q.avail[k])

============================================================================
